---------------------------- MODULE Spec2Model ----------------------------
(***************************************************************************)
(* School timetable builder: the zustand stores, the timetable generator,  *)
(* the validation rule engine and the edit dialog, as one state machine.   *)
(*                                                                         *)
(* Two versions of the store are in the sources and both are modelled:     *)
(*   "validating": src/src/store/timetableStore.ts, one grid, every        *)
(*                 mutation followed by validateTimetable;                 *)
(*   "multiClass": the store of src/src/App.tsx lines 60-324, entries      *)
(*                 carry a classId, validateTimetable is a no-op.          *)
(* storeKind says which one a behaviour runs.  A third copy of the store   *)
(* (src/src/App.tsx lines 326-493) has the operations of the validating    *)
(* store without the validation and without the blocked-move issue; its    *)
(* entry sets are those of the validating store and it has no actions of   *)
(* its own here.                                                           *)
(***************************************************************************)
EXTENDS Integers, Sequences, FiniteSets, TLC

(***************************************************************************)
(* Bounds of the model.                                                    *)
(***************************************************************************)
\* number of week days in DAYS (the program has 5)
NumDays == 2
\* number of periods in PERIODS (the program has 7)
NumPeriods == 2
\* entries the stores' add operation creates in one behaviour
MaxIds == 2
\* values of Date.now() that are told apart
MaxClock == 1
\* blocked-move issues appended between two validation passes
MaxBlocked == 1
\* generator inputs: subjects, teachers, grid and weekly lectures
MaxSubjects == 2
MaxTeachers == 2
MaxGenDays == 2
MaxGenPeriods == 2
MaxLectures == 5
\* entries of the entry lists a validation is run over
MaxInjected == 3

(***************************************************************************)
(* Program constants.                                                      *)
(***************************************************************************)
WEEK == <<"Monday", "Tuesday", "Wednesday", "Thursday", "Friday">>
DAYS == SubSeq(WEEK, 1, NumDays)
PERIODS == [i \in 1..NumPeriods |-> i]
ERROR == "error"
WARNING == "warning"
\* let maxAttempts = 1000 in generateTimetable
MaxAttempts == 1000

(***************************************************************************)
(* Array helpers (Array.prototype.some / filter / map / sort).             *)
(***************************************************************************)
\* the sequence s with its elements computed once
AsTuple(s) == s \o <<>>

Range(s) == {s[i] : i \in 1..Len(s)}

RECURSIVE Concat(_)
Concat(ss) == IF ss = <<>> THEN <<>> ELSE Head(ss) \o Concat(Tail(ss))

RECURSIVE SumSeq(_)
SumSeq(s) == IF s = <<>> THEN 0 ELSE Head(s) + SumSeq(Tail(s))

\* number of elements of s that satisfy Test
Count(s, Test(_)) == Cardinality({i \in 1..Len(s) : Test(s[i])})

\* Array.prototype.sort is stable.  With keys[i] the sort key of element i,
\* the index that ends at position p when sorting descending by key
\* (comparator (a, b) => key(b) - key(a)): elements with a greater key come
\* first, elements with equal keys keep their order.
SortedIndicesDesc(keys) ==
  LET n == Len(keys)
      pos(i) == 1 + Cardinality({j \in 1..n : keys[j] > keys[i] \/ (keys[j] = keys[i] /\ j < i)})
  IN [p \in 1..n |-> CHOOSE i \in 1..n : pos(i) = p]

\* the same, ascending: comparator (a, b) => key(a) - key(b)
SortedIndicesAsc(keys) ==
  LET n == Len(keys)
      pos(i) == 1 + Cardinality({j \in 1..n : keys[j] < keys[i] \/ (keys[j] = keys[i] /\ j < i)})
  IN [p \in 1..n |-> CHOOSE i \in 1..n : pos(i) = p]

\* the elements of a finite set of integers, ascending (Object.values of a
\* record with integer keys)
RECURSIVE SortAscSet(_)
SortAscSet(S) ==
  IF S = {} THEN <<>>
  ELSE LET m == CHOOSE x \in S : \A y \in S : x <= y
       IN <<m>> \o SortAscSet(S \ {m})

Permute(s, idx) == [p \in 1..Len(s) |-> s[idx[p]]]

(***************************************************************************)
(* Utilities.                                                              *)
(***************************************************************************)
\* `${day}-${period}`
formatTimeSlot(day, period) == day \o "-" \o ToString(period)

\* teacher.availableSlots.some(slot => slot.day === day && slot.period === period)
HasSlot(teacher, day, period) ==
  \E i \in 1..Len(teacher.availableSlots) :
     teacher.availableSlots[i].day = day /\ teacher.availableSlots[i].period = period

\* teachers.find(t => t.id === teacherId): its index, 0 for undefined
FindTeacher(teacherList, teacherId) ==
  IF \E i \in 1..Len(teacherList) : teacherList[i].id = teacherId
  THEN CHOOSE i \in 1..Len(teacherList) :
         /\ teacherList[i].id = teacherId
         /\ \A j \in 1..(i - 1) : teacherList[j].id # teacherId
  ELSE 0

\* timetableEntries.find(entry => entry.id === entryId): its index, 0 for undefined
FindEntry(entries, entryId) ==
  IF \E i \in 1..Len(entries) : entries[i].id = entryId
  THEN CHOOSE i \in 1..Len(entries) :
         /\ entries[i].id = entryId
         /\ \A j \in 1..(i - 1) : entries[j].id # entryId
  ELSE 0

(***************************************************************************)
(* Timetable generation (timetableStore.ts).                               *)
(***************************************************************************)
\* teacher id -> set of slot keys; a later teacher with the same id replaces
\* the map of an earlier one
createTeacherAvailabilityMap(teacherList) ==
  [id \in {teacherList[i].id : i \in 1..Len(teacherList)} |->
     LET last == CHOOSE i \in 1..Len(teacherList) :
                   /\ teacherList[i].id = id
                   /\ \A j \in (i + 1)..Len(teacherList) : teacherList[j].id # id
         slots == teacherList[last].availableSlots
     IN {formatTimeSlot(slots[k].day, slots[k].period) : k \in 1..Len(slots)}]

\* subjects in the order [...subjects].sort((a, b) => b.weeklyLectures - a.weeklyLectures)
SortSubjects(subjectList) ==
  Permute(subjectList,
          SortedIndicesDesc([i \in 1..Len(subjectList) |-> subjectList[i].weeklyLectures]))

\* a pick that gives ties to the teacher latest in the list
PickTeacherLastOnTies(teacherList, teacherWorkloads) ==
  IF teacherList = <<>> THEN 0
  ELSE CHOOSE i \in 1..Len(teacherList) :
         /\ \A j \in 1..Len(teacherList) :
               teacherWorkloads[teacherList[j].id] <= teacherWorkloads[teacherList[i].id]
         /\ \A j \in (i + 1)..Len(teacherList) :
               teacherWorkloads[teacherList[j].id] < teacherWorkloads[teacherList[i].id]

\* [...teachers].sort by teacherWorkloads descending, then sortedTeachers[0]:
\* the index of the teacher assigned, 0 when the list is empty (undefined)
PickTeacher(teacherList, teacherWorkloads) ==
  IF teacherList = <<>> THEN 0
  ELSE SortedIndicesDesc([i \in 1..Len(teacherList) |->
                            teacherWorkloads[teacherList[i].id]])[1]

\* the forEach over sortedSubjects; reading .id of an undefined
\* assignedTeacher throws a TypeError
RECURSIVE AssignLoop(_, _, _, _)
AssignLoop(rest, teacherList, teacherWorkloads, teacherAssignments) ==
  IF rest = <<>> THEN [threw |-> FALSE, map |-> teacherAssignments]
  ELSE LET subject == Head(rest)
           pick == PickTeacher(teacherList, teacherWorkloads)
       IN IF pick = 0 THEN [threw |-> TRUE, map |-> teacherAssignments]
          ELSE LET assignedTeacher == teacherList[pick]
               IN AssignLoop(Tail(rest), teacherList,
                             [teacherWorkloads EXCEPT ![assignedTeacher.id] =
                                                        @ - subject.weeklyLectures],
                             (subject.id :> assignedTeacher.id) @@ teacherAssignments)

\* [threw, map]: map is the Record<subject id, teacher id>
assignTeachersToSubjects(subjectList, teacherList) ==
  LET teacherWorkloads ==
        [id \in {teacherList[i].id : i \in 1..Len(teacherList)} |->
           LET last == CHOOSE i \in 1..Len(teacherList) :
                         /\ teacherList[i].id = id
                         /\ \A j \in (i + 1)..Len(teacherList) : teacherList[j].id # id
           IN Len(teacherList[last].availableSlots)]
  IN AssignLoop(SortSubjects(subjectList), teacherList, teacherWorkloads, <<>>)

\* availabilityMap[teacherId]?.[slotKey] || false
isTeacherAvailable(teacherId, day, period, availabilityMap) ==
  /\ teacherId \in DOMAIN availabilityMap
  /\ formatTimeSlot(day, period) \in availabilityMap[teacherId]

\* lecturesPerDay, then days.reduce((minDay, day) => ... < ... ? day : minDay, days[0])
RECURSIVE ReduceMinDay(_, _, _)
ReduceMinDay(rest, minDay, lecturesPerDay) ==
  IF rest = <<>> THEN minDay
  ELSE ReduceMinDay(Tail(rest),
                    IF lecturesPerDay[Head(rest)] < lecturesPerDay[minDay]
                    THEN Head(rest) ELSE minDay,
                    lecturesPerDay)

findDayWithFewestLectures(subject, timetable, dayList) ==
  LET lecturesPerDay ==
        [d \in Range(dayList) |->
           Cardinality({i \in 1..Len(timetable) :
                          timetable[i].subjectId = subject.id /\ timetable[i].day = d})]
  IN ReduceMinDay(dayList, dayList[1], lecturesPerDay)

\* a period check that leaves the teacher's availability out
SlotSuitableForAnyTeacher(st, teacherId, day, period, availabilityMap) ==
  formatTimeSlot(day, period) \notin st.filledSlots

\* the three checks of the period loops: the slot is not filled, the teacher
\* is available, the teacher is not booked in the slot
SlotSuitable(st, teacherId, day, period, availabilityMap) ==
  /\ formatTimeSlot(day, period) \notin st.filledSlots
  /\ isTeacherAvailable(teacherId, day, period, availabilityMap)
  /\ ~ \E i \in 1..Len(st.timetable) :
         /\ st.timetable[i].teacherId = teacherId
         /\ st.timetable[i].day = day
         /\ st.timetable[i].period = period

\* a period loop that runs from periodsPerDay down to 1
LastPeriod(st, teacherId, day, periods, availabilityMap) ==
  IF \E p \in 1..periods : SlotSuitable(st, teacherId, day, p, availabilityMap)
  THEN CHOOSE p \in 1..periods :
         /\ SlotSuitable(st, teacherId, day, p, availabilityMap)
         /\ \A q \in (p + 1)..periods : ~SlotSuitable(st, teacherId, day, q, availabilityMap)
  ELSE 0

\* for (let period = 1; period <= periodsPerDay; period++): the first
\* suitable period of the day, 0 when the loop ends without one
FirstPeriod(st, teacherId, day, periods, availabilityMap) ==
  IF \E p \in 1..periods : SlotSuitable(st, teacherId, day, p, availabilityMap)
  THEN CHOOSE p \in 1..periods :
         /\ SlotSuitable(st, teacherId, day, p, availabilityMap)
         /\ \A q \in 1..(p - 1) : ~SlotSuitable(st, teacherId, day, q, availabilityMap)
  ELSE 0

\* for (const day of days) { if (day === targetDay) continue; ... }: the index
\* of the first other day with a suitable period, 0 when there is none
FirstOtherDay(st, teacherId, targetDay, dayList, periods, availabilityMap) ==
  LET ok(k) == /\ dayList[k] # targetDay
               /\ FirstPeriod(st, teacherId, dayList[k], periods, availabilityMap) # 0
  IN IF \E k \in 1..Len(dayList) : ok(k)
     THEN CHOOSE k \in 1..Len(dayList) : ok(k) /\ \A j \in 1..(k - 1) : ~ok(j)
     ELSE 0

\* a push that leaves scheduledLectures as it is
PushEntryUncounted(st, subject, teacherId, day, period) ==
  [st EXCEPT
     !.timetable = Append(@, [id |-> st.firstId + Len(st.timetable),
                              subjectId |-> subject.id,
                              teacherId |-> teacherId,
                              day |-> day,
                              period |-> period]),
     !.filledSlots = @ \cup {formatTimeSlot(day, period)}]

\* timetable.push(...); filledSlots[slotKey] = true; scheduledLectures[subject.id]++
\* generateId() gives the entry an id no other entry has
PushEntry(st, subject, teacherId, day, period) ==
  [st EXCEPT
     !.timetable = Append(@, [id |-> st.firstId + Len(st.timetable),
                              subjectId |-> subject.id,
                              teacherId |-> teacherId,
                              day |-> day,
                              period |-> period]),
     !.filledSlots = @ \cup {formatTimeSlot(day, period)},
     !.scheduledLectures = [@ EXCEPT ![subject.id] = @ + 1]]

\* if (!teacherId) continue: undefined and 0 are falsy
NoTeacher(teacherId) == teacherId = 0

\* the body of for (const subject of subjectsToSchedule)
ScheduleSubject(st, subject, subjectTeacherMap, dayList, periods, availabilityMap) ==
  IF st.scheduledLectures[subject.id] >= subject.weeklyLectures THEN st
  ELSE LET st1 == [st EXCEPT !.allSubjectsScheduled = FALSE]
           teacherId == subjectTeacherMap[subject.id]
       IN IF NoTeacher(teacherId) THEN st1
          ELSE LET targetDay == findDayWithFewestLectures(subject, st1.timetable, dayList)
                   period == FirstPeriod(st1, teacherId, targetDay, periods, availabilityMap)
               IN IF period # 0
                  THEN PushEntry(st1, subject, teacherId, targetDay, period)
                  ELSE LET k == FirstOtherDay(st1, teacherId, targetDay, dayList,
                                              periods, availabilityMap)
                       IN IF k = 0 THEN st1
                          ELSE PushEntry(st1, subject, teacherId, dayList[k],
                                         FirstPeriod(st1, teacherId, dayList[k],
                                                     periods, availabilityMap))

RECURSIVE SchedulePass(_, _, _, _, _, _)
SchedulePass(st, rest, subjectTeacherMap, dayList, periods, availabilityMap) ==
  IF rest = <<>> THEN st
  ELSE SchedulePass(ScheduleSubject(st, Head(rest), subjectTeacherMap, dayList,
                                    periods, availabilityMap),
                    Tail(rest), subjectTeacherMap, dayList, periods, availabilityMap)

\* while (!allSubjectsScheduled && maxAttempts > 0).  A pass that places no
\* entry leaves timetable, filledSlots and scheduledLectures as they were, so
\* every later pass repeats it until maxAttempts is 0: the loop is cut there.
RECURSIVE ScheduleLoop(_, _, _, _, _, _)
ScheduleLoop(st, subjectsToSchedule, subjectTeacherMap, dayList, periods, availabilityMap) ==
  IF st.allSubjectsScheduled \/ ~(st.maxAttempts > 0) THEN st
  ELSE LET pass == SchedulePass([st EXCEPT !.allSubjectsScheduled = TRUE,
                                           !.maxAttempts = @ - 1],
                                subjectsToSchedule, subjectTeacherMap, dayList,
                                periods, availabilityMap)
       IN IF ~pass.allSubjectsScheduled /\ pass.timetable = st.timetable
          THEN [pass EXCEPT !.maxAttempts = 0]
          ELSE ScheduleLoop(pass, subjectsToSchedule, subjectTeacherMap, dayList,
                            periods, availabilityMap)

\* [threw, timetable]; firstId stands for the ids generateId() hands out
generateTimetable(subjectList, teacherList, dayList, periods, firstId) ==
  LET teacherAvailabilityMap == createTeacherAvailabilityMap(teacherList)
      assigned == assignTeachersToSubjects(subjectList, teacherList)
      start == [timetable |-> <<>>,
                filledSlots |-> {},
                scheduledLectures |->
                  [id \in {subjectList[i].id : i \in 1..Len(subjectList)} |-> 0],
                allSubjectsScheduled |-> FALSE,
                maxAttempts |-> MaxAttempts,
                firstId |-> firstId]
  IN IF assigned.threw THEN [threw |-> TRUE, timetable |-> <<>>]
     ELSE [threw |-> FALSE,
           timetable |-> ScheduleLoop(start, SortSubjects(subjectList), assigned.map,
                                      dayList, periods, teacherAvailabilityMap).timetable]

(***************************************************************************)
(* Validation rule engine (utils and timetableStore.ts validateTimetable). *)
(***************************************************************************)
\* `error-${message.toLowerCase().replace(/\s+/g, "-")}-${Date.now()}`.  No
\* operation reads an issue's id; it is kept as the label it is made from and
\* the clock value of the call.
generateErrorId(label, t) == [label |-> label, at |-> t]

\* an issue whose message carries the time of the call
IssueStamped(label, message, severity, t) ==
  [id |-> generateErrorId(label, t), message |-> message \o " at " \o ToString(t),
   severity |-> severity]

Issue(label, message, severity, t) ==
  [id |-> generateErrorId(label, t), message |-> message, severity |-> severity]

\* counts[subject.id], incremented for every entry whose subjectId has a count
countSubjectLectures(entries, subjectList) ==
  [id \in {subjectList[i].id : i \in 1..Len(subjectList)} |->
     Cardinality({i \in 1..Len(entries) : entries[i].subjectId = id})]

\* subjectEntriesByDay[day] of one subject
SubjectEntriesOnDay(entries, subject, day) ==
  Cardinality({i \in 1..Len(entries) :
                 entries[i].subjectId = subject.id /\ entries[i].day = day})

\* a lecture-count check without the excess branch
LectureCountIssuesShortfallOnly(entries, subjectList, subject, t) ==
  LET lectureCount == countSubjectLectures(entries, subjectList)[subject.id]
  IN IF lectureCount < subject.weeklyLectures
     THEN <<Issue(subject.name \o " lectures insufficient",
                  subject.name \o " has only " \o ToString(lectureCount) \o " of "
                    \o ToString(subject.weeklyLectures) \o " required lectures",
                  ERROR, t)>>
     ELSE <<>>

\* the lecture-count issue of one subject (at most one)
LectureCountIssues(entries, subjectList, subject, t) ==
  LET lectureCount == countSubjectLectures(entries, subjectList)[subject.id]
  IN IF lectureCount < subject.weeklyLectures
     THEN <<Issue(subject.name \o " lectures insufficient",
                  subject.name \o " has only " \o ToString(lectureCount) \o " of "
                    \o ToString(subject.weeklyLectures) \o " required lectures",
                  ERROR, t)>>
     ELSE IF lectureCount > subject.weeklyLectures
     THEN <<Issue(subject.name \o " lectures excess",
                  subject.name \o " has " \o ToString(lectureCount)
                    \o " lectures but only " \o ToString(subject.weeklyLectures)
                    \o " are required",
                  ERROR, t)>>
     ELSE <<>>

\* the distribution warnings of one subject, one per day with more than 1
DistributionIssues(entries, subject, dayList, t) ==
  IF subject.weeklyLectures <= Len(dayList)
  THEN Concat([k \in 1..Len(dayList) |->
                 LET n == SubjectEntriesOnDay(entries, subject, dayList[k])
                 IN IF n > 1
                    THEN <<Issue(subject.name \o " distribution " \o dayList[k],
                                 subject.name \o " has " \o ToString(n) \o " lectures on "
                                   \o dayList[k] \o ", but should have at most 1",
                                 WARNING, t)>>
                    ELSE <<>>])
  ELSE <<>>

\* Check 1: subjects.forEach, the count issue and then the distribution
\* warnings of each subject in turn
SubjectIssues(entries, subjectList, dayList, t) ==
  Concat([k \in 1..Len(subjectList) |->
            LectureCountIssues(entries, subjectList, subjectList[k], t)
              \o DistributionIssues(entries, subjectList[k], dayList, t)])

\* a double-booking check that reports a slot once, however often it repeats
checkTeacherConflictsOncePerSlot(teacher, entries, t) ==
  LET teacherEntries == SelectSeq(entries, LAMBDA e : e.teacherId = teacher.id)
      n == Len(teacherEntries)
      SameSlotAt(i, j) ==
        formatTimeSlot(teacherEntries[j].day, teacherEntries[j].period)
          = formatTimeSlot(teacherEntries[i].day, teacherEntries[i].period)
      double == Concat([i \in 1..n |->
                  IF Cardinality({j \in 1..(i - 1) : SameSlotAt(i, j)}) = 1
                  THEN <<Issue("Teacher " \o teacher.name \o " double-booking",
                               teacher.name \o " is double-booked on "
                                 \o teacherEntries[i].day \o " period "
                                 \o ToString(teacherEntries[i].period),
                               ERROR, t)>>
                  ELSE <<>>])
      unavailable == Concat([i \in 1..n |->
                  IF ~HasSlot(teacher, teacherEntries[i].day, teacherEntries[i].period)
                  THEN <<Issue("Teacher " \o teacher.name \o " availability",
                               teacher.name \o " is not available on "
                                 \o teacherEntries[i].day \o " period "
                                 \o ToString(teacherEntries[i].period),
                               ERROR, t)>>
                  ELSE <<>>])
  IN double \o unavailable

\* checkTeacherConflicts: double bookings first, then availability
checkTeacherConflicts(teacher, entries, t) ==
  LET teacherEntries == SelectSeq(entries, LAMBDA e : e.teacherId = teacher.id)
      n == Len(teacherEntries)
      double == Concat([i \in 1..n |->
                  IF \E j \in 1..(i - 1) :
                       formatTimeSlot(teacherEntries[j].day, teacherEntries[j].period)
                         = formatTimeSlot(teacherEntries[i].day, teacherEntries[i].period)
                  THEN <<Issue("Teacher " \o teacher.name \o " double-booking",
                               teacher.name \o " is double-booked on "
                                 \o teacherEntries[i].day \o " period "
                                 \o ToString(teacherEntries[i].period),
                               ERROR, t)>>
                  ELSE <<>>])
      unavailable == Concat([i \in 1..n |->
                  IF ~HasSlot(teacher, teacherEntries[i].day, teacherEntries[i].period)
                  THEN <<Issue("Teacher " \o teacher.name \o " availability",
                               teacher.name \o " is not available on "
                                 \o teacherEntries[i].day \o " period "
                                 \o ToString(teacherEntries[i].period),
                               ERROR, t)>>
                  ELSE <<>>])
  IN double \o unavailable

\* subjects.find(s => s.id === id): its index, 0 for undefined
FindSubject(subjectList, id) ==
  IF \E i \in 1..Len(subjectList) : subjectList[i].id = id
  THEN CHOOSE i \in 1..Len(subjectList) :
         /\ subjectList[i].id = id
         /\ \A j \in 1..(i - 1) : subjectList[j].id # id
  ELSE 0

\* checkConsecutivePeriods: per day, the entries sorted by period, one warning
\* for every i whose subject is also that of i + 1 and i + 2
checkConsecutivePeriods(entries, subjectList, dayList, t) ==
  Concat([k \in 1..Len(dayList) |->
    LET onDay == SelectSeq(entries, LAMBDA e : e.day = dayList[k])
        dayEntries == Permute(onDay,
                              SortedIndicesAsc([i \in 1..Len(onDay) |-> onDay[i].period]))
    IN Concat([i \in 1..(IF Len(dayEntries) > 2 THEN Len(dayEntries) - 2 ELSE 0) |->
         IF /\ dayEntries[i].subjectId = dayEntries[i + 1].subjectId
            /\ dayEntries[i].subjectId = dayEntries[i + 2].subjectId
            /\ FindSubject(subjectList, dayEntries[i].subjectId) # 0
         THEN LET subject == subjectList[FindSubject(subjectList, dayEntries[i].subjectId)]
              IN <<Issue(subject.name \o " consecutive " \o dayList[k],
                         subject.name \o " has 3 or more consecutive periods on "
                           \o dayList[k],
                         WARNING, t)>>
         ELSE <<>>])])

\* empty slots found by looking at the day of the entries only
EmptySlotsByDay(entries, dayList) ==
  {sl \in Range(dayList) \X (1..Len(PERIODS)) :
     ~ \E i \in 1..Len(entries) : entries[i].day = sl[1]}

\* Check 4: the slots of days x PERIODS that hold no entry
EmptySlots(entries, dayList) ==
  {sl \in Range(dayList) \X (1..Len(PERIODS)) :
     ~ \E i \in 1..Len(entries) : entries[i].day = sl[1] /\ entries[i].period = sl[2]}

EmptySlotIssues(entries, subjectList, dayList, t) ==
  LET counts == countSubjectLectures(entries, subjectList)
      emptySlots == EmptySlots(entries, dayList)
  IN IF /\ Cardinality(emptySlots) > 0
        /\ \E k \in 1..Len(subjectList) :
             counts[subjectList[k].id] < subjectList[k].weeklyLectures
     THEN <<Issue("empty-slots-warning",
                  "There are " \o ToString(Cardinality(emptySlots))
                    \o " empty slots that could be used for subjects needing more lectures",
                  WARNING, t)>>
     ELSE <<>>

(***************************************************************************)
(* Distribution and workload scoring.  The program computes in doubles;    *)
(* the two comparisons it makes are decided here in integers.  With v the  *)
(* per-day counts of a subject over D days, stdDev = sqrt(N) / D where     *)
(* N = D * sum(v^2) - sum(v)^2, and the subject's score is D / (D + sqrt N).*)
(***************************************************************************)
ScoreScale == 10 * 100

\* floor of the square root, by bisection; lo * lo <= n < hi * hi
RECURSIVE IsqrtBetween(_, _, _)
IsqrtBetween(n, lo, hi) ==
  IF hi - lo <= 1 THEN lo
  ELSE LET mid == (lo + hi) \div 2
       IN IF mid * mid <= n THEN IsqrtBetween(n, mid, hi) ELSE IsqrtBetween(n, lo, mid)

Isqrt(n) == IsqrtBetween(n, 0, IF n < 46340 THEN n + 1 ELSE 46341)

RECURSIVE ProdSeq(_)
ProdSeq(s) == IF s = <<>> THEN 1 ELSE Head(s) * ProdSeq(Tail(s))

\* N of one subject
SpreadOf(entries, subject, dayList) ==
  LET v == AsTuple([k \in 1..Len(dayList) |->
                      SubjectEntriesOnDay(entries, subject, dayList[k])])
  IN Len(dayList) * SumSeq([k \in 1..Len(v) |-> v[k] * v[k]]) - SumSeq(v) * SumSeq(v)

\* calculateDistributionScore(...) < subjects.length * 0.7.  When every N is a
\* square the score is a rational and is compared exactly; otherwise it is
\* irrational and is compared in fixed point at ScoreScale.
DistributionScoreLow(entries, subjectList, dayList) ==
  LET scored == SelectSeq(subjectList, LAMBDA sub : ~(sub.weeklyLectures <= 1))
      D == Len(dayList)
      N == AsTuple([k \in 1..Len(scored) |-> SpreadOf(entries, scored[k], dayList)])
      root == AsTuple([k \in 1..Len(scored) |-> Isqrt(N[k])])
      den == AsTuple([k \in 1..Len(scored) |-> D + root[k]])
  IN IF \A k \in 1..Len(scored) : root[k] * root[k] = N[k]
     THEN 10 * SumSeq([k \in 1..Len(scored) |->
                         D * ProdSeq([j \in 1..Len(scored) |->
                                        IF j = k THEN 1 ELSE den[j]])])
            < 7 * Len(subjectList) * ProdSeq(den)
     ELSE 10 * SumSeq([k \in 1..Len(scored) |->
                         (D * ScoreScale * ScoreScale)
                           \div (D * ScoreScale + Isqrt(N[k] * ScoreScale * ScoreScale))])
            < 7 * Len(subjectList) * ScoreScale

\* evaluateTeacherWorkloadBalance(...) > 2: the population variance of the
\* teachers' entry counts exceeds 4 (no teacher: NaN > 2 is false)
WorkloadUnbalanced(entries, teacherList) ==
  LET ids == {teacherList[i].id : i \in 1..Len(teacherList)}
      idSeq == SortAscSet(ids)
      v == [k \in 1..Len(idSeq) |->
              Cardinality({i \in 1..Len(entries) : entries[i].teacherId = idSeq[k]})]
      n == Len(v)
  IN n > 0 /\ n * SumSeq([k \in 1..n |-> v[k] * v[k]]) - SumSeq(v) * SumSeq(v) > 4 * n * n

\* suggestTimetableImprovements: the messages, in order
suggestTimetableImprovements(entries, subjectList, teacherList, dayList) ==
  LET difficult == {subjectList[i].id : i \in {j \in 1..Len(subjectList) :
                                               subjectList[j].weeklyLectures >= 4}}
      onDay(d) == Cardinality({i \in 1..Len(entries) :
                                 entries[i].day = d /\ entries[i].subjectId \in difficult})
  IN (IF DistributionScoreLow(entries, subjectList, dayList)
      THEN <<"Subject distribution could be improved for better learning outcomes.">>
      ELSE <<>>)
     \o (IF WorkloadUnbalanced(entries, teacherList)
         THEN <<"Teacher workloads are not well balanced.">>
         ELSE <<>>)
     \o Concat([k \in 1..Len(dayList) |->
                  IF onDay(dayList[k]) > Cardinality(difficult)
                  THEN <<dayList[k] \o " has a high concentration of difficult subjects.">>
                  ELSE <<>>])

\* the issue list validateTimetable builds; t is Date.now()
\* suggestion.substring(0, 20), for the suggestions there are
Substring20(suggestion) ==
  CASE suggestion = "Subject distribution could be improved for better learning outcomes."
         -> "Subject distribution"
    [] suggestion = "Teacher workloads are not well balanced." -> "Teacher workloads ar"
    [] suggestion = "Monday has a high concentration of difficult subjects."
         -> "Monday has a high co"
    [] suggestion = "Tuesday has a high concentration of difficult subjects."
         -> "Tuesday has a high c"
    [] suggestion = "Wednesday has a high concentration of difficult subjects."
         -> "Wednesday has a high"
    [] suggestion = "Thursday has a high concentration of difficult subjects."
         -> "Thursday has a high "
    [] suggestion = "Friday has a high concentration of difficult subjects."
         -> "Friday has a high co"

ValidationIssues(entries, subjectList, teacherList, dayList, t) ==
  SubjectIssues(entries, subjectList, dayList, t)
    \o Concat([k \in 1..Len(teacherList) |->
                 checkTeacherConflicts(teacherList[k], entries, t)])
    \o checkConsecutivePeriods(entries, subjectList, dayList, t)
    \o EmptySlotIssues(entries, subjectList, dayList, t)
    \o LET suggestions == suggestTimetableImprovements(entries, subjectList,
                                                       teacherList, dayList)
       IN [k \in 1..Len(suggestions) |->
             Issue("suggestion-" \o Substring20(suggestions[k]), suggestions[k],
                   WARNING, t)]

(***************************************************************************)
(* State.                                                                  *)
(***************************************************************************)
VARIABLES
  storeKind,         \* "validating" or "multiClass": the store version running
  subjects,          \* Subject[]: id, name, weeklyLectures
  teachers,          \* Teacher[]: id, name, availableSlots
  classes,           \* Class[] (multiClass store)
  activeClassId,     \* id of the class shown (multiClass store)
  days,              \* string[]
  periodsPerDay,     \* number
  timetableEntries,  \* TimetableEntry[]
  validationErrors,  \* ValidationError[] (validating store)
  nextId,            \* the ids generateId() has handed out so far, plus 1
  now,               \* Date.now()
  dialog,            \* EditTimetableEntryDialog: its props and selections
  ret                \* the last handler run and what it returned or reported

vars == <<storeKind, subjects, teachers, classes, activeClassId, days, periodsPerDay,
          timetableEntries, validationErrors, nextId, now, dialog, ret>>

(***************************************************************************)
(* Seed data.                                                              *)
(***************************************************************************)
SubjectNames == <<"Mathematics", "Science", "English", "History", "Geography",
                  "Physical Education", "Art", "Music">>
TeacherNames == <<"Mr. Smith", "Mrs. Johnson", "Mr. Williams", "Ms. Brown",
                  "Mr. Davis", "Mrs. Miller">>

\* the first subjects of initialSubjects
initialSubjects ==
  <<[id |-> 1, name |-> "Mathematics", weeklyLectures |-> 5],
    [id |-> 2, name |-> "Science", weeklyLectures |-> 4]>>

initialClasses ==
  <<[id |-> "class-a", name |-> "Class A"], [id |-> "class-b", name |-> "Class B"]>>

\* the slots of dayList x 1..periods, days first, periods ascending
GridSlots(dayList, periods) ==
  [k \in 1..(Len(dayList) * periods) |->
     [day |-> dayList[((k - 1) \div periods) + 1], period |-> ((k - 1) % periods) + 1]]

\* generateAvailableSlots() keeps each slot of DAYS x PERIODS with
\* probability 0.8.  Two of its outcomes are the seed: the first teacher
\* lacks the last slot of the week, the second has the first day only.
initialTeachers ==
  LET all == GridSlots(DAYS, Len(PERIODS))
  IN <<[id |-> 1, name |-> "Mr. Smith",
        availableSlots |-> SubSeq(all, 1, Len(all) - 1)],
       [id |-> 2, name |-> "Mrs. Johnson",
        availableSlots |-> SelectSeq(all, LAMBDA sl : sl.day = DAYS[1])]>>

ClosedDialog ==
  [isOpen |-> FALSE, entry |-> 0, day |-> "", period |-> 0,
   selectedSubjectId |-> 0, selectedTeacherId |-> 0]

NoCall == [op |-> "", value |-> ""]

InitValidating ==
  /\ storeKind = "validating"
  /\ subjects = initialSubjects
  /\ teachers = initialTeachers
  /\ classes = <<>>
  /\ activeClassId = ""
  /\ days = DAYS
  /\ periodsPerDay = Len(PERIODS)
  /\ timetableEntries = <<>>
  /\ validationErrors = <<>>
  /\ nextId = 1
  /\ now = 0
  /\ dialog = ClosedDialog
  /\ ret = NoCall

InitMultiClass ==
  /\ storeKind = "multiClass"
  /\ subjects = initialSubjects
  /\ teachers = initialTeachers
  /\ classes = initialClasses
  /\ activeClassId = initialClasses[1].id
  /\ days = DAYS
  /\ periodsPerDay = Len(PERIODS)
  /\ timetableEntries = <<>>
  /\ validationErrors = <<>>
  /\ nextId = 1
  /\ now = 0
  /\ dialog = ClosedDialog
  /\ ret = NoCall

Init == InitValidating \/ InitMultiClass

(***************************************************************************)
(* Inputs of the store operations.                                         *)
(***************************************************************************)
SubjectIds == {subjects[i].id : i \in 1..Len(subjects)}
TeacherIds == {teachers[i].id : i \in 1..Len(teachers)}
ClassIds == {classes[i].id : i \in 1..Len(classes)}
\* the ids of the entries, and one id no entry has
EntryIds == {timetableEntries[i].id : i \in 1..Len(timetableEntries)} \cup {nextId}

\* Omit<TimetableEntry, "id"> of the validating store: no classId
NewEntries ==
  [subjectId : SubjectIds, teacherId : TeacherIds, day : Range(days),
   period : 1..periodsPerDay]

\* Omit<TimetableEntry, "id"> of the multiClass store; classId "" stands for
\* a missing classId
NewClassEntries ==
  [subjectId : SubjectIds, teacherId : TeacherIds, day : Range(days),
   period : 1..periodsPerDay, classId : ClassIds \cup {""}]

\* Partial<TimetableEntry> as the dialogs pass it: some of subjectId, teacherId
EntryUpdates ==
  {u \in UNION {[f -> SubjectIds \cup TeacherIds] :
                  f \in SUBSET {"subjectId", "teacherId"}} :
     /\ ("subjectId" \in DOMAIN u => u["subjectId"] \in SubjectIds)
     /\ ("teacherId" \in DOMAIN u => u["teacherId"] \in TeacherIds)}

\* { ...entry, ...updates }
Spread(entry, updates) ==
  [f \in DOMAIN entry \cup DOMAIN updates |->
     IF f \in DOMAIN updates THEN updates[f] ELSE entry[f]]

(***************************************************************************)
(* The validating store (timetableStore.ts).                               *)
(***************************************************************************)
\* a validation that pushes its issues onto the stored list
ValidatedOntoStored(entries) ==
  validationErrors \o ValidationIssues(entries, subjects, teachers, days, now)

\* validateTimetable as the store's actions call it: the new issue list
Validated(entries) == ValidationIssues(entries, subjects, teachers, days, now)

StoreUnchanged ==
  UNCHANGED <<storeKind, subjects, teachers, classes, activeClassId, days,
              periodsPerDay, now, dialog>>

initializeTimetable ==
  /\ storeKind = "validating"
  /\ nextId <= MaxIds
  /\ LET generated == generateTimetable(subjects, teachers, days, periodsPerDay, nextId)
     IN IF generated.threw
        THEN /\ ret' = [op |-> "initializeTimetable", value |-> "TypeError"]
             /\ UNCHANGED <<timetableEntries, validationErrors, nextId>>
        ELSE /\ timetableEntries' = generated.timetable
             /\ validationErrors' = Validated(generated.timetable)
             /\ nextId' = nextId + Len(generated.timetable)
             /\ ret' = [op |-> "initializeTimetable", value |-> "undefined"]
  /\ StoreUnchanged

addTimetableEntry(entry) ==
  /\ storeKind = "validating"
  /\ nextId <= MaxIds
  /\ LET newEntry == Spread(entry, [id |-> nextId])
     IN /\ timetableEntries' = Append(timetableEntries, newEntry)
        /\ validationErrors' = Validated(Append(timetableEntries, newEntry))
  /\ nextId' = nextId + 1
  /\ ret' = [op |-> "addTimetableEntry", value |-> "undefined"]
  /\ StoreUnchanged

\* a removal that cuts the list at the entry with the id
removeTimetableEntryAndRest(id) ==
  /\ storeKind = "validating"
  /\ LET kept == SubSeq(timetableEntries, 1,
                        Cardinality({i \in 1..Len(timetableEntries) :
                                       \A j \in 1..i : timetableEntries[j].id # id}))
     IN /\ timetableEntries' = kept
        /\ validationErrors' = Validated(kept)
  /\ ret' = [op |-> "removeTimetableEntry", value |-> "undefined"]
  /\ UNCHANGED nextId
  /\ StoreUnchanged

removeTimetableEntry(id) ==
  /\ storeKind = "validating"
  /\ LET kept == SelectSeq(timetableEntries, LAMBDA e : e.id # id)
     IN /\ timetableEntries' = kept
        /\ validationErrors' = Validated(kept)
  /\ ret' = [op |-> "removeTimetableEntry", value |-> "undefined"]
  /\ UNCHANGED nextId
  /\ StoreUnchanged

\* an update whose map applies the updates to every entry
updateTimetableEntryEveryEntry(id, updates) ==
  /\ storeKind = "validating"
  /\ LET updated == [i \in 1..Len(timetableEntries) |->
                       Spread(timetableEntries[i], updates)]
     IN /\ timetableEntries' = updated
        /\ validationErrors' = Validated(updated)
  /\ ret' = [op |-> "updateTimetableEntry", value |-> "undefined"]
  /\ UNCHANGED nextId
  /\ StoreUnchanged

updateTimetableEntry(id, updates) ==
  /\ storeKind = "validating"
  /\ LET updated == [i \in 1..Len(timetableEntries) |->
                       IF timetableEntries[i].id = id
                       THEN Spread(timetableEntries[i], updates)
                       ELSE timetableEntries[i]]
     IN /\ timetableEntries' = updated
        /\ validationErrors' = Validated(updated)
  /\ ret' = [op |-> "updateTimetableEntry", value |-> "undefined"]
  /\ UNCHANGED nextId
  /\ StoreUnchanged

\* isSlotEmpty of the validating store: no other entry at the slot
IsSlotEmpty(entries, entryId, newDay, newPeriod) ==
  ~ \E i \in 1..Len(entries) :
      /\ entries[i].id # entryId
      /\ entries[i].day = newDay
      /\ entries[i].period = newPeriod

\* teacher?.availableSlots.some(...): undefined (falsy) without a teacher
TeacherHasSlot(teacherList, teacherId, newDay, newPeriod) ==
  /\ FindTeacher(teacherList, teacherId) # 0
  /\ HasSlot(teacherList[FindTeacher(teacherList, teacherId)], newDay, newPeriod)

\* a move that forgets to pick the entry: every entry is put at the slot
MovedEntriesAll(entries, entryId, newDay, newPeriod) ==
  [i \in 1..Len(entries) |-> [entries[i] EXCEPT !.day = newDay, !.period = newPeriod]]

\* the entries with entry entryId put at (newDay, newPeriod)
MovedEntries(entries, entryId, newDay, newPeriod) ==
  [i \in 1..Len(entries) |->
     IF entries[i].id = entryId
     THEN [entries[i] EXCEPT !.day = newDay, !.period = newPeriod]
     ELSE entries[i]]

BlockedMoveMessages ==
  {"Cannot move lecture to an occupied slot",
   "Teacher is not available for this time slot"}

moveTimetableEntry(entryId, newDay, newPeriod) ==
  /\ storeKind = "validating"
  /\ LET k == FindEntry(timetableEntries, entryId)
     IN IF k = 0
        THEN UNCHANGED <<timetableEntries, validationErrors>>
        ELSE LET entryToMove == timetableEntries[k]
                 isSlotEmpty == IsSlotEmpty(timetableEntries, entryId, newDay, newPeriod)
                 available == TeacherHasSlot(teachers, entryToMove.teacherId,
                                             newDay, newPeriod)
             IN IF isSlotEmpty /\ available
                THEN LET moved == MovedEntries(timetableEntries, entryId, newDay, newPeriod)
                     IN /\ timetableEntries' = moved
                        /\ validationErrors' = Validated(moved)
                ELSE LET errorMessage ==
                           IF ~isSlotEmpty
                           THEN "Cannot move lecture to an occupied slot"
                           ELSE "Teacher is not available for this time slot"
                     IN /\ Count(validationErrors,
                                 LAMBDA e : e.message \in BlockedMoveMessages) < MaxBlocked
                        /\ validationErrors' =
                             Append(validationErrors,
                                    Issue(errorMessage, errorMessage, ERROR, now))
                        /\ UNCHANGED timetableEntries
  /\ ret' = [op |-> "moveTimetableEntry", value |-> "undefined"]
  /\ UNCHANGED nextId
  /\ StoreUnchanged

\* a validation that sorts the stored entries by period while it looks for
\* consecutive periods
validateTimetableSortingEntries ==
  /\ storeKind = "validating"
  /\ timetableEntries' =
       Permute(timetableEntries,
               SortedIndicesAsc([i \in 1..Len(timetableEntries) |->
                                   timetableEntries[i].period]))
  /\ validationErrors' = Validated(timetableEntries)
  /\ ret' = [op |-> "validateTimetable", value |-> "errors"]
  /\ UNCHANGED nextId
  /\ StoreUnchanged

validateTimetable ==
  /\ storeKind = "validating"
  /\ validationErrors' = Validated(timetableEntries)
  /\ ret' = [op |-> "validateTimetable", value |-> "errors"]
  /\ UNCHANGED <<timetableEntries, nextId>>
  /\ StoreUnchanged

(***************************************************************************)
(* The drag-and-drop grid over the validating store (TimetableGrid.tsx).   *)
(***************************************************************************)
\* timetableEntries.find(e => e.day === day && e.period === period): the
\* entry a cell shows, 0 for undefined
CellEntry(entries, day, period) ==
  IF \E i \in 1..Len(entries) : entries[i].day = day /\ entries[i].period = period
  THEN CHOOSE i \in 1..Len(entries) :
         /\ entries[i].day = day /\ entries[i].period = period
         /\ \A j \in 1..(i - 1) : ~(entries[j].day = day /\ entries[j].period = period)
  ELSE 0

\* isValidDropTarget while draggedId is the entry dragged
isValidDropTarget(entries, draggedId, day, period) ==
  \/ FindEntry(entries, draggedId) = 0
  \/ ~ \E i \in 1..Len(entries) :
         /\ entries[i].day = day
         /\ entries[i].period = period
         /\ entries[i].id # draggedId

\* droppableId={`${day}-${period}`}
DroppableId(day, period) == day \o "-" \o ToString(period)

\* destination.droppableId.split("-") and parseInt(newPeriodStr, 10), for the
\* ids of the grid's cells
SplitDroppableId(droppableId) ==
  CHOOSE parts \in Range(WEEK) \X (0..9) :
     parts[1] \o "-" \o ToString(parts[2]) = droppableId

\* where a drag can end: no destination (""), or a cell whose Droppable is
\* not disabled
Destinations(dayList, periods) ==
  {""} \cup {DroppableId(dayList[d], p) : d \in 1..Len(dayList), p \in 1..periods}

DropEnabled(entries, draggedId, droppableId) ==
  LET parts == SplitDroppableId(droppableId)
  IN isValidDropTarget(entries, draggedId, parts[1], parts[2])

\* handleDragEnd for the card of entry entryId: moveTimetableEntry, then
\* validateTimetable
handleDragEnd(entryId, destination) ==
  /\ storeKind = "validating"
  /\ FindEntry(timetableEntries, entryId) # 0
  /\ LET entry == timetableEntries[FindEntry(timetableEntries, entryId)]
         source == DroppableId(entry.day, entry.period)
     IN /\ timetableEntries[CellEntry(timetableEntries, entry.day, entry.period)].id
             = entryId
        /\ IF destination = "" THEN TRUE
           ELSE DropEnabled(timetableEntries, entryId, destination)
        /\ IF destination = "" \/ source = destination
           THEN /\ ret' = [op |-> "handleDragEnd", value |-> "cancel"]
                /\ UNCHANGED <<timetableEntries, validationErrors>>
           ELSE LET parts == SplitDroppableId(destination)
                    newDay == parts[1]
                    newPeriod == parts[2]
                    isSlotEmpty == IsSlotEmpty(timetableEntries, entryId, newDay, newPeriod)
                    available == TeacherHasSlot(teachers, entry.teacherId,
                                                newDay, newPeriod)
                    afterMove ==
                      IF isSlotEmpty /\ available
                      THEN MovedEntries(timetableEntries, entryId, newDay, newPeriod)
                      ELSE timetableEntries
                IN /\ timetableEntries' = afterMove
                   /\ validationErrors' = Validated(afterMove)
                   /\ ret' = [op |-> "handleDragEnd", value |-> "drop"]
  /\ UNCHANGED nextId
  /\ StoreUnchanged

resetTimetable ==
  /\ storeKind = "validating"
  /\ timetableEntries' = <<>>
  /\ validationErrors' = <<>>
  /\ ret' = [op |-> "resetTimetable", value |-> "undefined"]
  /\ UNCHANGED nextId
  /\ StoreUnchanged

\* time passes between two handlers
Tick ==
  /\ storeKind = "validating"
  /\ now < MaxClock
  /\ now' = now + 1
  /\ UNCHANGED <<storeKind, subjects, teachers, classes, activeClassId, days,
                 periodsPerDay, timetableEntries, validationErrors, nextId, dialog, ret>>

(***************************************************************************)
(* The multiClass store (App.tsx lines 60-324).                            *)
(***************************************************************************)
ClassStoreUnchanged ==
  UNCHANGED <<storeKind, subjects, teachers, classes, days, periodsPerDay,
              validationErrors, now>>

setActiveClass(classId) ==
  /\ storeKind = "multiClass"
  /\ activeClassId' = classId
  /\ ret' = [op |-> "setActiveClass", value |-> "undefined"]
  /\ UNCHANGED <<timetableEntries, nextId, dialog>>
  /\ ClassStoreUnchanged

\* the id generateId() gives a new class: one no class and no entry has
NewClassId(n) == "class-" \o ToString(n)

ClassNames == {"Class C"}

\* the ids removeClass is called with: of the classes there are or were,
\* or can come to be
RemovableClassIds ==
  ClassIds \cup {initialClasses[i].id : i \in 1..Len(initialClasses)}
           \cup {NewClassId(n) : n \in 1..MaxIds}

addClass(className) ==
  /\ storeKind = "multiClass"
  /\ nextId <= MaxIds
  /\ classes' = Append(classes, [id |-> NewClassId(nextId), name |-> className])
  /\ nextId' = nextId + 1
  /\ ret' = [op |-> "addClass", value |-> "undefined"]
  /\ UNCHANGED <<storeKind, subjects, teachers, days, periodsPerDay, validationErrors,
                 now, activeClassId, timetableEntries, dialog>>

\* state.classes.find((cls) => cls.id !== classId)?.id || ""
FirstOtherClassId(classList, classId) ==
  IF \E i \in 1..Len(classList) : classList[i].id # classId
  THEN classList[CHOOSE i \in 1..Len(classList) :
                   /\ classList[i].id # classId
                   /\ \A j \in 1..(i - 1) : classList[j].id = classId].id
  ELSE ""

removeClass(classId) ==
  /\ storeKind = "multiClass"
  /\ classes' = SelectSeq(classes, LAMBDA cls : cls.id # classId)
  /\ timetableEntries' = SelectSeq(timetableEntries, LAMBDA e : e.classId # classId)
  /\ activeClassId' = IF activeClassId = classId /\ Len(classes) > 1
                      THEN FirstOtherClassId(classes, classId)
                      ELSE activeClassId
  /\ ret' = [op |-> "removeClass", value |-> "undefined"]
  /\ UNCHANGED <<storeKind, subjects, teachers, days, periodsPerDay, validationErrors,
                 now, nextId, dialog>>

\* the entries after the store's addTimetableEntry(entry), and what it returns
ClassAdd(entries, entry, active, id) ==
  LET classId == IF entry.classId # "" THEN entry.classId ELSE active
  IN IF classId = ""
     THEN [entries |-> entries, value |-> "false"]
     ELSE [entries |-> Append(entries, [Spread(entry, [id |-> id])
                                          EXCEPT !.classId = classId]),
           value |-> "true"]

addClassTimetableEntry(entry) ==
  /\ storeKind = "multiClass"
  /\ nextId <= MaxIds
  /\ LET added == ClassAdd(timetableEntries, entry, activeClassId, nextId)
     IN /\ timetableEntries' = added.entries
        /\ ret' = [op |-> "addTimetableEntry", value |-> added.value]
  /\ nextId' = nextId + 1
  /\ UNCHANGED <<activeClassId, dialog>>
  /\ ClassStoreUnchanged

removeClassTimetableEntry(id) ==
  /\ storeKind = "multiClass"
  /\ timetableEntries' = SelectSeq(timetableEntries, LAMBDA e : e.id # id)
  /\ ret' = [op |-> "removeTimetableEntry", value |-> "undefined"]
  /\ UNCHANGED <<activeClassId, nextId, dialog>>
  /\ ClassStoreUnchanged

updateClassTimetableEntry(id, updates) ==
  /\ storeKind = "multiClass"
  /\ timetableEntries' = [i \in 1..Len(timetableEntries) |->
                            IF timetableEntries[i].id = id
                            THEN Spread(timetableEntries[i], updates)
                            ELSE timetableEntries[i]]
  /\ ret' = [op |-> "updateTimetableEntry", value |-> "undefined"]
  /\ UNCHANGED <<activeClassId, nextId, dialog>>
  /\ ClassStoreUnchanged

\* isSlotEmpty of the multiClass store: no other entry of the class at the slot
IsClassSlotEmpty(entries, entryToMove, newDay, newPeriod) ==
  ~ \E i \in 1..Len(entries) :
      /\ entries[i].id # entryToMove.id
      /\ entries[i].day = newDay
      /\ entries[i].period = newPeriod
      /\ entries[i].classId = entryToMove.classId

\* isTeacherBusy: another entry has the teacher at the slot
IsTeacherBusy(entries, entryToMove, newDay, newPeriod) ==
  \E i \in 1..Len(entries) :
      /\ entries[i].id # entryToMove.id
      /\ entries[i].day = newDay
      /\ entries[i].period = newPeriod
      /\ entries[i].teacherId = entryToMove.teacherId

\* a move check that leaves isTeacherBusy out
ClassMoveAllowedWhenBusy(entries, teacherList, entryToMove, newDay, newPeriod) ==
  /\ IsClassSlotEmpty(entries, entryToMove, newDay, newPeriod)
  /\ TeacherHasSlot(teacherList, entryToMove.teacherId, newDay, newPeriod)

\* isSlotEmpty && isTeacherAvailable of the multiClass moveTimetableEntry
ClassMoveAllowed(entries, teacherList, entryToMove, newDay, newPeriod) ==
  /\ IsClassSlotEmpty(entries, entryToMove, newDay, newPeriod)
  /\ TeacherHasSlot(teacherList, entryToMove.teacherId, newDay, newPeriod)
  /\ ~IsTeacherBusy(entries, entryToMove, newDay, newPeriod)

moveClassTimetableEntry(entryId, newDay, newPeriod) ==
  /\ storeKind = "multiClass"
  /\ LET k == FindEntry(timetableEntries, entryId)
     IN IF k = 0
        THEN /\ ret' = [op |-> "moveTimetableEntry", value |-> "false"]
             /\ UNCHANGED timetableEntries
        ELSE IF ClassMoveAllowed(timetableEntries, teachers, timetableEntries[k],
                                 newDay, newPeriod)
        THEN /\ timetableEntries' =
                  MovedEntries(timetableEntries, entryId, newDay, newPeriod)
             /\ ret' = [op |-> "moveTimetableEntry", value |-> "true"]
        ELSE /\ ret' = [op |-> "moveTimetableEntry", value |-> "false"]
             /\ UNCHANGED timetableEntries
  /\ UNCHANGED <<activeClassId, nextId, dialog>>
  /\ ClassStoreUnchanged

\* handleDragEnd of the grid over the multiClass store: over is "" for no
\* drop target, else the id of a cell; the validateTimetable it calls after
\* the move does nothing in this store
handleClassDragEnd(entryId, over) ==
  /\ storeKind = "multiClass"
  /\ FindEntry(timetableEntries, entryId) # 0
  /\ IF over = ""
     THEN /\ ret' = [op |-> "handleDragEnd", value |-> "cancel"]
          /\ UNCHANGED timetableEntries
     ELSE LET parts == SplitDroppableId(over)
              entryToMove == timetableEntries[FindEntry(timetableEntries, entryId)]
          IN /\ timetableEntries' =
                  IF ClassMoveAllowed(timetableEntries, teachers, entryToMove,
                                      parts[1], parts[2])
                  THEN MovedEntries(timetableEntries, entryId, parts[1], parts[2])
                  ELSE timetableEntries
             /\ ret' = [op |-> "handleDragEnd", value |-> "drop"]
  /\ UNCHANGED <<activeClassId, nextId, dialog>>
  /\ ClassStoreUnchanged

(***************************************************************************)
(* EditTimetableEntryDialog over the multiClass store (part_004).          *)
(***************************************************************************)
\* subjects[0]?.id || null
FirstIdOf(list) == IF list = <<>> THEN 0 ELSE list[1].id

DialogUnchanged ==
  UNCHANGED <<storeKind, subjects, teachers, classes, activeClassId, days,
              periodsPerDay, timetableEntries, validationErrors, nextId, now>>

\* the dialog is opened on an empty cell: props day and period, no entry
openDialog(day, period) ==
  /\ storeKind = "multiClass"
  /\ ~dialog.isOpen
  /\ dialog' = [isOpen |-> TRUE, entry |-> 0, day |-> day, period |-> period,
                selectedSubjectId |-> FirstIdOf(subjects),
                selectedTeacherId |-> FirstIdOf(teachers)]
  /\ ret' = [op |-> "openDialog", value |-> ""]
  /\ DialogUnchanged

\* the dialog is opened on an entry: prop entry
openDialogOnEntry(entryId) ==
  /\ storeKind = "multiClass"
  /\ ~dialog.isOpen
  /\ FindEntry(timetableEntries, entryId) # 0
  /\ LET entry == timetableEntries[FindEntry(timetableEntries, entryId)]
     IN dialog' = [isOpen |-> TRUE, entry |-> entryId, day |-> "", period |-> 0,
                   selectedSubjectId |-> entry.subjectId,
                   selectedTeacherId |-> entry.teacherId]
  /\ ret' = [op |-> "openDialog", value |-> ""]
  /\ DialogUnchanged

setSelectedSubjectId(id) ==
  /\ dialog.isOpen
  /\ dialog' = [dialog EXCEPT !.selectedSubjectId = id]
  /\ UNCHANGED ret
  /\ DialogUnchanged

setSelectedTeacherId(id) ==
  /\ dialog.isOpen
  /\ dialog' = [dialog EXCEPT !.selectedTeacherId = id]
  /\ UNCHANGED ret
  /\ DialogUnchanged

onClose ==
  /\ dialog.isOpen
  /\ dialog' = ClosedDialog
  /\ ret' = [op |-> "onClose", value |-> ""]
  /\ DialogUnchanged

NotAvailableToast(teacher) == teacher.name \o " is not available for this slot."
TeacherBusyToast(name) == name \o " is already teaching another class at this time."
SlotOccupiedToast == "This slot is already occupied in the current class."

\* the checks in another order: the occupied slot first
NewEntryRejectionSlotFirst(entries, teacherList, active, teacherId, day, period) ==
  LET t == FindTeacher(teacherList, teacherId)
      isSlotAvailable == HasSlot(teacherList[t], day, period)
      isTeacherBusy == \E i \in 1..Len(entries) :
                         /\ entries[i].day = day
                         /\ entries[i].period = period
                         /\ entries[i].teacherId = teacherId
      isSlotOccupied == \E i \in 1..Len(entries) :
                          /\ entries[i].day = day
                          /\ entries[i].period = period
                          /\ entries[i].classId = active
  IN IF isSlotOccupied THEN SlotOccupiedToast
     ELSE IF t # 0 /\ ~isSlotAvailable THEN NotAvailableToast(teacherList[t])
     ELSE IF t # 0 /\ isTeacherBusy THEN TeacherBusyToast(teacherList[t].name)
     ELSE ""

\* checks that look for the teacher in the entries of the active class only
NewEntryRejectionInClass(entries, teacherList, active, teacherId, day, period) ==
  LET t == FindTeacher(teacherList, teacherId)
      isSlotAvailable == HasSlot(teacherList[t], day, period)
      isTeacherBusy == \E i \in 1..Len(entries) :
                         /\ entries[i].day = day
                         /\ entries[i].period = period
                         /\ entries[i].teacherId = teacherId
                         /\ entries[i].classId = active
      isSlotOccupied == \E i \in 1..Len(entries) :
                          /\ entries[i].day = day
                          /\ entries[i].period = period
                          /\ entries[i].classId = active
  IN IF t # 0 /\ ~isSlotAvailable THEN NotAvailableToast(teacherList[t])
     ELSE IF t # 0 /\ isTeacherBusy THEN TeacherBusyToast(teacherList[t].name)
     ELSE IF isSlotOccupied THEN SlotOccupiedToast
     ELSE ""

\* the checks handleSave makes before it adds a new entry, in its order:
\* the toast of the first one that fails, "" when the entry is added
NewEntryRejection(entries, teacherList, active, teacherId, day, period) ==
  LET t == FindTeacher(teacherList, teacherId)
      isSlotAvailable == HasSlot(teacherList[t], day, period)
      isTeacherBusy == \E i \in 1..Len(entries) :
                         /\ entries[i].day = day
                         /\ entries[i].period = period
                         /\ entries[i].teacherId = teacherId
      isSlotOccupied == \E i \in 1..Len(entries) :
                          /\ entries[i].day = day
                          /\ entries[i].period = period
                          /\ entries[i].classId = active
  IN IF t # 0 /\ ~isSlotAvailable THEN NotAvailableToast(teacherList[t])
     ELSE IF t # 0 /\ isTeacherBusy THEN TeacherBusyToast(teacherList[t].name)
     ELSE IF isSlotOccupied THEN SlotOccupiedToast
     ELSE ""

\* teacherBusyElsewhere of the update branch
TeacherBusyElsewhere(entries, entry, teacherId) ==
  /\ entry.teacherId # teacherId
  /\ \E i \in 1..Len(entries) :
       /\ entries[i].id # entry.id
       /\ entries[i].day = entry.day
       /\ entries[i].period = entry.period
       /\ entries[i].teacherId = teacherId

handleSave ==
  /\ storeKind = "multiClass"
  /\ dialog.isOpen
  /\ IF dialog.selectedSubjectId = 0 \/ dialog.selectedTeacherId = 0
     THEN /\ ret' = [op |-> "handleSave",
                     value |-> "Please select both subject and teacher"]
          /\ UNCHANGED <<timetableEntries, nextId, dialog>>
     ELSE IF dialog.entry = 0
     THEN \* a new entry
          LET rejection == NewEntryRejection(timetableEntries, teachers, activeClassId,
                                             dialog.selectedTeacherId,
                                             dialog.day, dialog.period)
          IN IF rejection # ""
             THEN /\ ret' = [op |-> "handleSave", value |-> rejection]
                  /\ UNCHANGED <<timetableEntries, nextId, dialog>>
             ELSE /\ nextId <= MaxIds
                  /\ timetableEntries' =
                       ClassAdd(timetableEntries,
                                [subjectId |-> dialog.selectedSubjectId,
                                 teacherId |-> dialog.selectedTeacherId,
                                 day |-> dialog.day,
                                 period |-> dialog.period,
                                 classId |-> activeClassId],
                                activeClassId, nextId).entries
                  /\ nextId' = nextId + 1
                  /\ ret' = [op |-> "handleSave", value |-> "Successfully added"]
                  /\ dialog' = ClosedDialog
     ELSE IF FindEntry(timetableEntries, dialog.entry) # 0
     THEN \* an existing entry
          LET entry == timetableEntries[FindEntry(timetableEntries, dialog.entry)]
          IN IF TeacherBusyElsewhere(timetableEntries, entry, dialog.selectedTeacherId)
             THEN /\ ret' = [op |-> "handleSave",
                             value |-> TeacherBusyToast(
                               IF FindTeacher(teachers, dialog.selectedTeacherId) # 0
                               THEN teachers[FindTeacher(teachers,
                                                         dialog.selectedTeacherId)].name
                               ELSE "undefined")]
                  /\ UNCHANGED <<timetableEntries, nextId, dialog>>
             ELSE /\ timetableEntries' =
                       [i \in 1..Len(timetableEntries) |->
                          IF timetableEntries[i].id = entry.id
                          THEN Spread(timetableEntries[i],
                                      [subjectId |-> dialog.selectedSubjectId,
                                       teacherId |-> dialog.selectedTeacherId])
                          ELSE timetableEntries[i]]
                  /\ ret' = [op |-> "handleSave", value |-> "Successfully updated entry"]
                  /\ dialog' = ClosedDialog
                  /\ UNCHANGED nextId
     ELSE FALSE
  /\ UNCHANGED activeClassId
  /\ ClassStoreUnchanged

handleDelete ==
  /\ storeKind = "multiClass"
  /\ dialog.isOpen
  /\ dialog.entry # 0
  /\ timetableEntries' = SelectSeq(timetableEntries, LAMBDA e : e.id # dialog.entry)
  /\ ret' = [op |-> "handleDelete", value |-> "Entry successfully deleted"]
  /\ dialog' = ClosedDialog
  /\ UNCHANGED <<activeClassId, nextId>>
  /\ ClassStoreUnchanged

(***************************************************************************)
(* The editing operations of both store versions, from the empty grid.     *)
(***************************************************************************)
Next ==
  \/ \E entry \in NewEntries : addTimetableEntry(entry)
  \/ \E id \in EntryIds : removeTimetableEntry(id)
  \/ \E id \in EntryIds, updates \in EntryUpdates : updateTimetableEntry(id, updates)
  \/ \E id \in EntryIds, day \in Range(days), period \in 1..periodsPerDay :
       moveTimetableEntry(id, day, period)
  \/ validateTimetable
  \/ resetTimetable
  \/ Tick
  \/ \E classId \in ClassIds : setActiveClass(classId)
  \/ \E entry \in NewClassEntries : addClassTimetableEntry(entry)
  \/ \E id \in EntryIds : removeClassTimetableEntry(id)
  \/ \E id \in EntryIds, updates \in EntryUpdates : updateClassTimetableEntry(id, updates)
  \/ \E id \in EntryIds, day \in Range(days), period \in 1..periodsPerDay :
       moveClassTimetableEntry(id, day, period)

Spec == Init /\ [][Next]_vars

\* only additions and moves, from the empty grid
NextAddMove ==
  \/ \E entry \in NewEntries : addTimetableEntry(entry)
  \/ \E id \in EntryIds, day \in Range(days), period \in 1..periodsPerDay :
       moveTimetableEntry(id, day, period)
  \/ \E entry \in NewClassEntries : addClassTimetableEntry(entry)
  \/ \E id \in EntryIds, day \in Range(days), period \in 1..periodsPerDay :
       moveClassTimetableEntry(id, day, period)

SpecAddMove == Init /\ [][NextAddMove]_vars

\* the dialog over the multiClass store
NextDialog ==
  \/ \E day \in Range(days), period \in 1..periodsPerDay : openDialog(day, period)
  \/ \E id \in EntryIds : openDialogOnEntry(id)
  \/ \E id \in SubjectIds : setSelectedSubjectId(id)
  \/ \E id \in TeacherIds : setSelectedTeacherId(id)
  \/ handleSave
  \/ handleDelete
  \/ onClose
  \/ \E classId \in ClassIds : setActiveClass(classId)
  \/ \E id \in EntryIds, day \in Range(days), period \in 1..periodsPerDay :
       moveClassTimetableEntry(id, day, period)

SpecDialog == InitMultiClass /\ [][NextDialog]_vars

(***************************************************************************)
(* The validating store under the grid: entries are added, dragged,        *)
(* moved and validated.                                                    *)
(***************************************************************************)
NextDrag ==
  \/ \E entry \in NewEntries : addTimetableEntry(entry)
  \/ \E id \in EntryIds, day \in Range(days), period \in 1..periodsPerDay :
       moveTimetableEntry(id, day, period)
  \/ \E id \in EntryIds :
       \E destination \in Destinations(days, periodsPerDay) :
          handleDragEnd(id, destination)
  \/ validateTimetable

SpecDrag == InitValidating /\ [][NextDrag]_vars

(***************************************************************************)
(* The class management of the multiClass store.                           *)
(***************************************************************************)
NextClasses ==
  \/ \E className \in ClassNames : addClass(className)
  \/ \E classId \in RemovableClassIds : removeClass(classId)
  \/ \E classId \in ClassIds : setActiveClass(classId)
  \/ \E entry \in NewClassEntries : addClassTimetableEntry(entry)

SpecClasses == InitMultiClass /\ [][NextClasses]_vars

(***************************************************************************)
(* The multiClass store edited through the dialog's additions and          *)
(* deletions and the grid's drag and drop.                                 *)
(***************************************************************************)
NextDialogMoves ==
  \/ \E day \in Range(days), period \in 1..periodsPerDay : openDialog(day, period)
  \/ \E id \in EntryIds : openDialogOnEntry(id)
  \/ \E id \in SubjectIds : setSelectedSubjectId(id)
  \/ \E id \in TeacherIds : setSelectedTeacherId(id)
  \/ dialog.entry = 0 /\ handleSave
  \/ handleDelete
  \/ onClose
  \/ \E classId \in ClassIds : setActiveClass(classId)
  \/ \E id \in EntryIds, over \in Destinations(days, periodsPerDay) :
       handleClassDragEnd(id, over)

SpecDialogMoves == InitMultiClass /\ [][NextDialogMoves]_vars

(***************************************************************************)
(* The generator on drawn inputs: initializeTimetable of the validating    *)
(* store after setSubjects / setTeachers and a domain of days and periods. *)
(***************************************************************************)
\* the subsequences of s
SubSequences(s) ==
  {[p \in 1..Cardinality(I) |-> s[SortAscSet(I)[p]]] : I \in SUBSET (1..Len(s))}

GenSubjectLists ==
  UNION {{[k \in 1..n |-> [id |-> k, name |-> SubjectNames[k], weeklyLectures |-> w[k]]] :
            w \in [1..n -> 0..MaxLectures]} : n \in 0..MaxSubjects}

\* teachers whose available slots are slots of the grid; ids from 0 or from 1
GenTeacherLists(dayList, periods) ==
  UNION {{[k \in 1..n |-> [id |-> first + k - 1, name |-> TeacherNames[k],
                           availableSlots |-> a[k]]] :
            a \in [1..n -> SubSequences(GridSlots(dayList, periods))],
            first \in {0, 1}} :
         n \in 0..MaxTeachers}

InitGen ==
  /\ storeKind = "validating"
  /\ subjects \in GenSubjectLists
  /\ days \in {SubSeq(WEEK, 1, n) : n \in 1..MaxGenDays}
  /\ periodsPerDay \in 1..MaxGenPeriods
  /\ teachers \in GenTeacherLists(days, periodsPerDay)
  /\ classes = <<>>
  /\ activeClassId = ""
  /\ timetableEntries = <<>>
  /\ validationErrors = <<>>
  /\ nextId = 1
  /\ now = 0
  /\ dialog = ClosedDialog
  /\ ret = NoCall

NextGen == initializeTimetable

SpecGen == InitGen /\ [][NextGen]_vars

(***************************************************************************)
(* The validating store holding an arbitrary entry list: every list of up  *)
(* to MaxInjected entries over the subjects, teachers, grid and classes,   *)
(* as repeated addTimetableEntry calls leave it (addTimetableEntry stores  *)
(* whatever entry it is given), and subjects whose weeklyLectures are      *)
(* small enough for the list to fall short of, meet and exceed them.       *)
(***************************************************************************)
\* setSubjects([...]) with weekly lectures 1 and 2
injectedSubjects ==
  <<[id |-> 1, name |-> SubjectNames[1], weeklyLectures |-> 1],
    [id |-> 2, name |-> SubjectNames[2], weeklyLectures |-> 2]>>

InjectedEntries ==
  [subjectId : {injectedSubjects[i].id : i \in 1..Len(injectedSubjects)},
   teacherId : {initialTeachers[i].id : i \in 1..Len(initialTeachers)},
   day : Range(DAYS), period : 1..Len(PERIODS),
   classId : {initialClasses[i].id : i \in 1..Len(initialClasses)}]

InitValidate ==
  /\ storeKind = "validating"
  /\ subjects = injectedSubjects
  /\ teachers = initialTeachers
  /\ classes = <<>>
  /\ activeClassId = ""
  /\ days = DAYS
  /\ periodsPerDay = Len(PERIODS)
  /\ \E n \in 0..MaxInjected : \E f \in [1..n -> InjectedEntries] :
        \* the k-th entry added gets id k
        timetableEntries = AsTuple([k \in 1..n |-> Spread(f[k], [id |-> k])])
  /\ validationErrors = <<>>
  /\ nextId = Len(timetableEntries) + 1
  /\ now = 0
  /\ dialog = ClosedDialog
  /\ ret = NoCall

NextValidate == validateTimetable

SpecValidate == InitValidate /\ [][NextValidate]_vars

(***************************************************************************)
(* The hard constraints of an entry set.                                   *)
(***************************************************************************)
\* the class of an entry; the entries of the validating store have no classId
\* and are all of the one class ""
ClassOf(e) == IF "classId" \in DOMAIN e THEN e.classId ELSE ""

SameSlot(a, b) == a.day = b.day /\ a.period = b.period

\* 1: no two entries of one class at one (day, period)
NoClassClash(entries) ==
  \A i, j \in 1..Len(entries) :
     (i # j /\ SameSlot(entries[i], entries[j])) => ClassOf(entries[i]) # ClassOf(entries[j])

\* 2: no teacher twice at one (day, period)
NoTeacherClash(entries) ==
  \A i, j \in 1..Len(entries) :
     (i # j /\ SameSlot(entries[i], entries[j])) => entries[i].teacherId # entries[j].teacherId

\* 3: every entry at a slot of its teacher's availableSlots
TeachersAvailable(entries, teacherList) ==
  \A i \in 1..Len(entries) :
     \E k \in 1..Len(teacherList) :
        /\ teacherList[k].id = entries[i].teacherId
        /\ \E n \in 1..Len(teacherList[k].availableSlots) :
              SameSlot(teacherList[k].availableSlots[n], entries[i])

HardConstraints ==
  /\ NoClassClash(timetableEntries)
  /\ NoTeacherClash(timetableEntries)
  /\ TeachersAvailable(timetableEntries, teachers)

(***************************************************************************)
(* Claims about additions and moves.                                       *)
(***************************************************************************)
\* an addEntry call of either store
AddCall(entry) ==
  /\ ret'.op = "addTimetableEntry"
  /\ IF "classId" \in DOMAIN entry THEN addClassTimetableEntry(entry)
     ELSE addTimetableEntry(entry)

\* a moveEntry call of either store
MoveCall(entryId, newDay, newPeriod) ==
  /\ ret'.op = "moveTimetableEntry"
  /\ \/ moveTimetableEntry(entryId, newDay, newPeriod)
     \/ moveClassTimetableEntry(entryId, newDay, newPeriod)

AllNewEntries == NewEntries \cup NewClassEntries
AllSlots == Range(days) \X (1..periodsPerDay)

\* the class an added entry goes to
TargetClass(entry) ==
  IF "classId" \in DOMAIN entry /\ entry.classId # "" THEN entry.classId
  ELSE activeClassId

\* C1: after any sequence of addEntry and moveEntry calls from the empty grid
\* the entry set has no two entries of one class at one slot, no teacher
\* twice at one slot, and no entry outside its teacher's availableSlots.
C1_AddMoveKeepHardConstraints == HardConstraints

\* C2: addEntry for a (day, period) that an entry of the same class occupies
\* fails with SlotOccupied and leaves the entry set unchanged.
C2_AddToOccupiedSlotFails ==
  [][\A entry \in AllNewEntries :
       (/\ AddCall(entry)
        /\ \E i \in 1..Len(timetableEntries) :
              /\ SameSlot(timetableEntries[i], entry)
              /\ ClassOf(timetableEntries[i]) = TargetClass(entry))
       => (ret'.value = "SlotOccupied" /\ timetableEntries' = timetableEntries)]_vars

\* C3: addEntry with a teacher whose availableSlots lacks the requested
\* (day, period) fails with TeacherUnavailable and the entry count is the same
\* before and after.
C3_AddUnavailableTeacherFails ==
  [][\A entry \in AllNewEntries :
       (AddCall(entry) /\ ~TeachersAvailable(<<entry>>, teachers))
       => (ret'.value = "TeacherUnavailable"
           /\ Len(timetableEntries') = Len(timetableEntries))]_vars

\* the three conditions of a move of entry k to (newDay, newPeriod)
MoveConditions(entries, teacherList, k, newDay, newPeriod) ==
  LET target == [day |-> newDay, period |-> newPeriod]
  IN /\ \A i \in 1..Len(entries) :
          (i # k /\ SameSlot(entries[i], target)) =>
             /\ ClassOf(entries[i]) # ClassOf(entries[k])
             /\ entries[i].teacherId # entries[k].teacherId
     /\ TeachersAvailable(<<[teacherId |-> entries[k].teacherId,
                             day |-> newDay, period |-> newPeriod]>>, teacherList)

\* C4: a move changes the slot of the entry only if, before it, no other
\* entry of its class is at the new slot, its teacher has the new slot in
\* availableSlots and no other entry has that teacher at the new slot; a move
\* from a state that satisfies the hard constraints leads to one that does.
C4_MoveOnlyWhenAllowed ==
  [][\A slot \in AllSlots : \A k \in 1..Len(timetableEntries) :
       MoveCall(timetableEntries[k].id, slot[1], slot[2]) =>
         /\ (~SameSlot(timetableEntries'[k], timetableEntries[k]) =>
               MoveConditions(timetableEntries, teachers, k, slot[1], slot[2]))
         /\ (HardConstraints => HardConstraints')]_vars

\* a move has just succeeded to a slot where another class has an entry, and
\* the hard constraints hold
C4_Witness ==
  /\ ret = [op |-> "moveTimetableEntry", value |-> "true"]
  /\ HardConstraints
  /\ \E i, j \in 1..Len(timetableEntries) :
        /\ i # j
        /\ SameSlot(timetableEntries[i], timetableEntries[j])
        /\ timetableEntries[i].subjectId # timetableEntries[j].subjectId

\* C5: a move of an entry to a slot that a different entry of the same class
\* occupies reports failure to the caller, leaves every entry where it was,
\* and appends exactly one error-severity issue to the issue list.
C5_BlockedMoveReported ==
  [][\A slot \in AllSlots : \A k \in 1..Len(timetableEntries) :
       (/\ MoveCall(timetableEntries[k].id, slot[1], slot[2])
        /\ \E i \in 1..Len(timetableEntries) :
              /\ i # k
              /\ SameSlot(timetableEntries[i], [day |-> slot[1], period |-> slot[2]])
              /\ ClassOf(timetableEntries[i]) = ClassOf(timetableEntries[k]))
       => /\ ret'.value = "false"
          /\ timetableEntries' = timetableEntries
          /\ Len(validationErrors') = Len(validationErrors) + 1
          /\ SubSeq(validationErrors', 1, Len(validationErrors)) = validationErrors
          /\ validationErrors'[Len(validationErrors')].severity = ERROR]_vars

\* the fields of an entry other than day and period
Identity(e) == [f \in DOMAIN e \ {"day", "period"} |-> e[f]]

\* the move was carried out: the multiClass store returns true, the
\* validating store validates the timetable
MoveSucceeded ==
  IF storeKind = "multiClass" THEN ret'.value = "true"
  ELSE \A i \in 1..Len(validationErrors') :
          validationErrors'[i].message \notin BlockedMoveMessages

\* C6: a successful move changes only the day and period of the moved entry:
\* its id, subjectId, teacherId and classId, every other entry and the
\* number of entries are unchanged.
C6_MoveChangesOnlySlot ==
  [][\A slot \in AllSlots : \A k \in 1..Len(timetableEntries) :
       (MoveCall(timetableEntries[k].id, slot[1], slot[2]) /\ MoveSucceeded) =>
         /\ Len(timetableEntries') = Len(timetableEntries)
         /\ Identity(timetableEntries'[k]) = Identity(timetableEntries[k])
         /\ timetableEntries'[k].day = slot[1]
         /\ timetableEntries'[k].period = slot[2]
         /\ \A i \in 1..Len(timetableEntries) :
               i # k => timetableEntries'[i] = timetableEntries[i]]_vars

\* the validating store has just carried out a move, next to another entry
C6_Witness ==
  /\ storeKind = "validating"
  /\ ret.op = "moveTimetableEntry"
  /\ Len(timetableEntries) >= 2
  /\ validationErrors = Validated(timetableEntries)
  /\ validationErrors # <<>>

(***************************************************************************)
(* Claims about the order of the checks of an addition.                    *)
(***************************************************************************)
\* the request of the open dialog: a new entry with both selections made
NewEntryRequest ==
  /\ dialog.isOpen
  /\ dialog.entry = 0
  /\ dialog.selectedSubjectId # 0
  /\ dialog.selectedTeacherId # 0

RequestedEntry ==
  [teacherId |-> dialog.selectedTeacherId, day |-> dialog.day, period |-> dialog.period,
   classId |-> activeClassId]

\* what the request of the open dialog violates
RequestOccupied ==
  \E i \in 1..Len(timetableEntries) :
     /\ SameSlot(timetableEntries[i], RequestedEntry)
     /\ ClassOf(timetableEntries[i]) = activeClassId

RequestUnavailable == ~TeachersAvailable(<<RequestedEntry>>, teachers)

RequestDoubleBooked ==
  \E i \in 1..Len(timetableEntries) :
     /\ SameSlot(timetableEntries[i], RequestedEntry)
     /\ timetableEntries[i].teacherId = dialog.selectedTeacherId

SeveralViolated ==
  \/ RequestOccupied /\ RequestUnavailable
  \/ RequestOccupied /\ RequestDoubleBooked
  \/ RequestUnavailable /\ RequestDoubleBooked

RequestedTeacherName == teachers[FindTeacher(teachers, dialog.selectedTeacherId)].name

UnavailableReport == RequestedTeacherName \o " is not available for this slot."
DoubleBookedReport == RequestedTeacherName \o " is already teaching another class at this time."
OccupiedReport == "This slot is already occupied in the current class."

Generated == ret = [op |-> "initializeTimetable", value |-> "undefined"]

LecturesOf(subject) ==
  Cardinality({i \in 1..Len(timetableEntries) :
                 timetableEntries[i].subjectId = subject.id})

\* the issue list has a lecture-count error of the kind for the subject
HasCountError(subject, kind) ==
  \E i \in 1..Len(validationErrors) :
     /\ validationErrors[i].severity = ERROR
     /\ validationErrors[i].id.label = subject.name \o " lectures " \o kind

\* C8: every generated entry set satisfies the hard constraints: no two
\* entries at one (day, period), no teacher twice at one (day, period), every
\* entry at a slot of its teacher's availableSlots, and every entry taught by
\* the teacher assigned to its subject.
C8_GeneratedSatisfiesHardConstraints ==
  Generated =>
    /\ \A i, j \in 1..Len(timetableEntries) :
          i # j => ~SameSlot(timetableEntries[i], timetableEntries[j])
    /\ NoTeacherClash(timetableEntries)
    /\ TeachersAvailable(timetableEntries, teachers)
    /\ \A i \in 1..Len(timetableEntries) :
          timetableEntries[i].teacherId =
            assignTeachersToSubjects(subjects, teachers).map[timetableEntries[i].subjectId]

\* a generated timetable of two teachers that availability left under-filled
\* although the grid has a free slot
C8_Witness ==
  /\ Generated
  /\ Len(timetableEntries) >= 2
  /\ \E i, j \in 1..Len(timetableEntries) :
        timetableEntries[i].teacherId # timetableEntries[j].teacherId
  /\ Len(timetableEntries) < Len(days) * periodsPerDay
  /\ \E k \in 1..Len(subjects) : LecturesOf(subjects[k]) < subjects[k].weeklyLectures

\* C9: the generator terminates, and when every teacher has at most 2
\* available slots and some subject requires 5 or more lectures it returns an
\* under-filled entry set without throwing and the validation that follows
\* reports at least one lecture-count shortfall error.
C9_SaturationUnderFills ==
  (/\ ret.op = "initializeTimetable"
   /\ \A k \in 1..Len(teachers) : Len(teachers[k].availableSlots) <= 2
   /\ \E k \in 1..Len(subjects) : subjects[k].weeklyLectures >= 5)
  => /\ ret.value = "undefined"
     /\ \E k \in 1..Len(subjects) :
           /\ LecturesOf(subjects[k]) < subjects[k].weeklyLectures
           /\ HasCountError(subjects[k], "insufficient")

\* every teacher has every slot of the grid
AllTeachersFree ==
  \A k \in 1..Len(teachers) :
     \A d \in Range(days), p \in 1..periodsPerDay :
        TeachersAvailable(<<[teacherId |-> teachers[k].id, day |-> d, period |-> p]>>,
                          <<teachers[k]>>)

\* C10: when every teacher is available at every slot of the grid and the
\* weeklyLectures of all subjects sum to at most days x periodsPerDay, the
\* generator places exactly weeklyLectures entries for every subject and the
\* validation reports no lecture-count error; one subject of 2 lectures with
\* one teacher on a grid of 1 day and 2 periods gets periods 1 and 2.
C10_FreeTeachersFillEverySubject ==
  (/\ ret.op = "initializeTimetable"
   /\ AllTeachersFree
   /\ SumSeq([k \in 1..Len(subjects) |-> subjects[k].weeklyLectures])
        <= Len(days) * periodsPerDay)
  => /\ ret.value = "undefined"
     /\ \A k \in 1..Len(subjects) :
           /\ LecturesOf(subjects[k]) = subjects[k].weeklyLectures
           /\ ~HasCountError(subjects[k], "insufficient")
           /\ ~HasCountError(subjects[k], "excess")
     /\ (/\ Len(subjects) = 1
         /\ subjects[1].weeklyLectures = 2
         /\ Len(teachers) = 1
         /\ Len(days) = 1
         /\ periodsPerDay = 2)
        => {<<timetableEntries[i].day, timetableEntries[i].period>> :
              i \in 1..Len(timetableEntries)} = {<<days[1], 1>>, <<days[1], 2>>}

(***************************************************************************)
(* Claims about the validation rule engine.                                *)
(***************************************************************************)
\* the issues as an unordered multiset of (severity, message)
IssueMultiset(issues) ==
  [p \in {<<issues[i].severity, issues[i].message>> : i \in 1..Len(issues)} |->
     Cardinality({i \in 1..Len(issues) : <<issues[i].severity, issues[i].message>> = p})]

\* C11: two validations in a row, with nothing but time passing in between,
\* give issue lists that are equal as multisets of (severity, message).
C11_ValidateTwiceSameIssues ==
  [][(ret.op = "validateTimetable" /\ ret'.op = "validateTimetable" /\ validateTimetable)
       => IssueMultiset(validationErrors') = IssueMultiset(validationErrors)]_vars

\* a validation at a later time than the store's first, with issues of both
\* severities in the list
C11_Witness ==
  /\ ret.op = "validateTimetable"
  /\ now > 0
  /\ \E i, j \in 1..Len(validationErrors) :
        /\ validationErrors[i].severity = ERROR
        /\ validationErrors[j].severity = WARNING
        /\ validationErrors[i].id.at = now

\* C12: validateTimetable leaves the entries, subjects, teachers, days and
\* periodsPerDay exactly as they were; only the stored issue list may differ.
C12_ValidateKeepsInputs ==
  [][(ret'.op = "validateTimetable" /\ validateTimetable)
       => UNCHANGED <<timetableEntries, subjects, teachers, days, periodsPerDay>>]_vars

\* a validation has run over entries that are not in period order
C12_Witness ==
  /\ ret.op = "validateTimetable"
  /\ validationErrors # <<>>
  /\ \E i, j \in 1..Len(timetableEntries) :
        /\ i < j
        /\ timetableEntries[i].day = timetableEntries[j].day
        /\ timetableEntries[i].period > timetableEntries[j].period

\* the error-severity issues with this message
ErrorsSaying(message) ==
  Count(validationErrors, LAMBDA e : e.severity = ERROR /\ e.message = message)

DoubleBookedMessage(teacher, day, period) ==
  teacher.name \o " is double-booked on " \o day \o " period " \o ToString(period)

NotAvailableMessage(teacher, day, period) ==
  teacher.name \o " is not available on " \o day \o " period " \o ToString(period)

\* the entries of this teacher at (day, period), in any class
EntriesOfTeacherAt(teacher, day, period) ==
  Count(timetableEntries,
          LAMBDA e : e.teacherId = teacher.id /\ e.day = day /\ e.period = period)

\* C13: after a validation, a teacher with k entries at one (day, period) has
\* exactly k-1 double-booking errors for that slot when k >= 2 and none
\* when k <= 1.
C13_DoubleBookingCount ==
  ret.op = "validateTimetable" =>
    \A i \in 1..Len(teachers) : \A day \in Range(days) : \A period \in 1..periodsPerDay :
       LET k == EntriesOfTeacherAt(teachers[i], day, period)
       IN ErrorsSaying(DoubleBookedMessage(teachers[i], day, period))
            = IF k >= 2 THEN k - 1 ELSE 0

\* a validated list with one teacher three times at one slot, twice in one
\* class and once in another, and two double-booking errors for it
C13_Witness ==
  /\ ret.op = "validateTimetable"
  /\ \E i \in 1..Len(teachers) : \E day \in Range(days) : \E period \in 1..periodsPerDay :
        /\ EntriesOfTeacherAt(teachers[i], day, period) = 3
        /\ \E a, b \in 1..Len(timetableEntries) :
              ClassOf(timetableEntries[a]) # ClassOf(timetableEntries[b])
        /\ ErrorsSaying(DoubleBookedMessage(teachers[i], day, period)) = 2

ShortfallMessage(subject, n) ==
  subject.name \o " has only " \o ToString(n) \o " of "
    \o ToString(subject.weeklyLectures) \o " required lectures"

ExcessMessage(subject, n) ==
  subject.name \o " has " \o ToString(n) \o " lectures but only "
    \o ToString(subject.weeklyLectures) \o " are required"

\* the lecture-count messages there can be for a subject, whatever the count
ShortfallMessages(subject) ==
  {ShortfallMessage(subject, n) : n \in 0..Len(timetableEntries)}

ExcessMessages(subject) ==
  {ExcessMessage(subject, n) : n \in 0..Len(timetableEntries)}

ErrorsAmong(messages) ==
  Count(validationErrors, LAMBDA e : e.severity = ERROR /\ e.message \in messages)

EntriesOfSubject(subject) ==
  Count(timetableEntries, LAMBDA e : e.subjectId = subject.id)

\* C14: after a validation, every subject has exactly one shortfall error and
\* no excess error when it has fewer entries than weeklyLectures, exactly one
\* excess error and no shortfall error when it has more, and neither when
\* the two are equal.
C14_LectureCountErrors ==
  ret.op = "validateTimetable" =>
    \A i \in 1..Len(subjects) :
       LET n == EntriesOfSubject(subjects[i])
           w == subjects[i].weeklyLectures
       IN /\ ErrorsAmong(ShortfallMessages(subjects[i])) = IF n < w THEN 1 ELSE 0
          /\ ErrorsAmong(ExcessMessages(subjects[i])) = IF n > w THEN 1 ELSE 0
          /\ n < w => ErrorsSaying(ShortfallMessage(subjects[i], n)) = 1
          /\ n > w => ErrorsSaying(ExcessMessage(subjects[i], n)) = 1

\* a validated list in which one subject exceeds its weeklyLectures and
\* another falls short of them
C14_Witness ==
  /\ ret.op = "validateTimetable"
  /\ \E i, j \in 1..Len(subjects) :
        /\ EntriesOfSubject(subjects[i]) > subjects[i].weeklyLectures
        /\ ErrorsSaying(ExcessMessage(subjects[i], EntriesOfSubject(subjects[i]))) = 1
        /\ EntriesOfSubject(subjects[j]) < subjects[j].weeklyLectures
        /\ ErrorsSaying(ShortfallMessage(subjects[j], EntriesOfSubject(subjects[j]))) = 1

\* a validated list in which a subject has exactly its weeklyLectures
C14_WitnessEqual ==
  /\ ret.op = "validateTimetable"
  /\ \E i \in 1..Len(subjects) :
        /\ EntriesOfSubject(subjects[i]) = subjects[i].weeklyLectures
        /\ subjects[i].weeklyLectures > 0

\* an error-severity issue that names the slot (day, period)
ErrorNamesSlot(day, period) ==
  \E i \in 1..Len(teachers) :
     \/ ErrorsSaying(DoubleBookedMessage(teachers[i], day, period)) > 0
     \/ ErrorsSaying(NotAvailableMessage(teachers[i], day, period)) > 0

\* C15: after a validation, two entries of one class at one (day, period), a
\* teacher twice at one (day, period), and an entry outside its teacher's
\* availableSlots each have an error-severity issue of their own.
C15_ValidateDetectsHardConstraints ==
  ret.op = "validateTimetable" =>
    /\ \A a, b \in 1..Len(timetableEntries) :
          (a # b /\ SameSlot(timetableEntries[a], timetableEntries[b])
             /\ ClassOf(timetableEntries[a]) = ClassOf(timetableEntries[b]))
            => ErrorNamesSlot(timetableEntries[a].day, timetableEntries[a].period)
    /\ \A a, b \in 1..Len(timetableEntries) : \A i \in 1..Len(teachers) :
          (a # b /\ SameSlot(timetableEntries[a], timetableEntries[b])
             /\ timetableEntries[a].teacherId = teachers[i].id
             /\ timetableEntries[b].teacherId = teachers[i].id)
            => ErrorsSaying(DoubleBookedMessage(teachers[i], timetableEntries[a].day,
                                                timetableEntries[a].period)) > 0
    /\ \A a \in 1..Len(timetableEntries) : \A i \in 1..Len(teachers) :
          (timetableEntries[a].teacherId = teachers[i].id
             /\ ~HasSlot(teachers[i], timetableEntries[a].day, timetableEntries[a].period))
            => ErrorsSaying(NotAvailableMessage(teachers[i], timetableEntries[a].day,
                                                timetableEntries[a].period)) > 0

(***************************************************************************)
(* Claims about the assignment of teachers to subjects.                    *)
(***************************************************************************)
\* the place of subject i in the processing order: after every subject with
\* more weeklyLectures and every earlier subject with as many
ProcessingRank(subjectList, i) ==
  1 + Cardinality({j \in 1..Len(subjectList) :
                     \/ subjectList[j].weeklyLectures > subjectList[i].weeklyLectures
                     \/ /\ subjectList[j].weeklyLectures = subjectList[i].weeklyLectures
                        /\ j < i})

\* the capacity teacher t has left when subject i is processed, under the
\* assignment map
RemainingCapacity(subjectList, teacher, map, i) ==
  LET earlier == {j \in 1..Len(subjectList) :
                    /\ ProcessingRank(subjectList, j) < ProcessingRank(subjectList, i)
                    /\ map[subjectList[j].id] = teacher.id}
      lectures == [j \in 1..Len(subjectList) |->
                     IF j \in earlier THEN subjectList[j].weeklyLectures ELSE 0]
  IN Len(teacher.availableSlots) - SumSeq(lectures)

\* C16: with a non-empty teacher list the assignment maps every subject to
\* one teacher of the list, namely the teacher with the highest remaining
\* capacity when the subject is processed (descending weeklyLectures, input
\* order on ties), the earliest such teacher on ties.
C16_GreedyAssignment ==
  (ret.op = "initializeTimetable" /\ teachers # <<>>) =>
    LET assigned == assignTeachersToSubjects(subjects, teachers)
    IN /\ ~assigned.threw
       /\ DOMAIN assigned.map = SubjectIds
       /\ \A i \in 1..Len(subjects) :
            \E t \in 1..Len(teachers) :
               /\ assigned.map[subjects[i].id] = teachers[t].id
               /\ \A u \in 1..Len(teachers) :
                     RemainingCapacity(subjects, teachers[u], assigned.map, i)
                       <= RemainingCapacity(subjects, teachers[t], assigned.map, i)
               /\ \A u \in 1..(t - 1) :
                     RemainingCapacity(subjects, teachers[u], assigned.map, i)
                       < RemainingCapacity(subjects, teachers[t], assigned.map, i)

\* two teachers with as many slots each and two subjects: the first subject
\* processed went to the first teacher, the other one to the second
C16_Witness ==
  /\ ret.op = "initializeTimetable"
  /\ Len(teachers) = 2 /\ Len(subjects) = 2
  /\ Len(teachers[1].availableSlots) = Len(teachers[2].availableSlots)
  /\ subjects[1].weeklyLectures < subjects[2].weeklyLectures
  /\ LET assigned == assignTeachersToSubjects(subjects, teachers)
     IN /\ assigned.map[subjects[2].id] = teachers[1].id
        /\ assigned.map[subjects[1].id] = teachers[2].id

\* C17: with no teachers and at least one subject, initializeTimetable
\* returns the NoTeachersAvailable outcome as a value and stores no entries.
C17_NoTeachersIsAnOutcome ==
  (ret.op = "initializeTimetable" /\ teachers = <<>> /\ subjects # <<>>) =>
    /\ ret.value = "NoTeachersAvailable"
    /\ timetableEntries = <<>>

(***************************************************************************)
(* Claims about removals and updates.                                      *)
(***************************************************************************)
\* a removeEntry call of either store
RemoveCall(id) ==
  /\ ret'.op = "removeTimetableEntry"
  /\ \/ removeTimetableEntry(id)
     \/ removeClassTimetableEntry(id)

\* an Update call of either store
UpdateCall(id, updates) ==
  /\ ret'.op = "updateTimetableEntry"
  /\ \/ updateTimetableEntry(id, updates)
     \/ updateClassTimetableEntry(id, updates)

\* the entries without position k
WithoutPosition(entries, k) ==
  [p \in 1..(Len(entries) - 1) |-> IF p < k THEN entries[p] ELSE entries[p + 1]]

\* C18: removeTimetableEntry(id) takes the entry with that id out of the
\* list and leaves every other entry as it was; with an id no entry has the
\* list is unchanged; and hard constraints 1-3, when they hold before, hold
\* after.
C18_RemoveExactlyThatEntry ==
  [][\A id \in EntryIds :
       RemoveCall(id) =>
         /\ \A k \in 1..Len(timetableEntries) :
               timetableEntries[k].id = id =>
                 timetableEntries' = WithoutPosition(timetableEntries, k)
         /\ (\A k \in 1..Len(timetableEntries) : timetableEntries[k].id # id)
               => timetableEntries' = timetableEntries
         /\ HardConstraints => HardConstraints']_vars

\* a removal has taken one of two entries out of a list that satisfies the
\* hard constraints
C18_Witness ==
  /\ ret.op = "removeTimetableEntry"
  /\ Len(timetableEntries) = 1
  /\ nextId = 3
  /\ HardConstraints

\* the step leaves the day, period, id and every field not named of the
\* entry with the id as they were, sets the named fields, and leaves every
\* other entry and the number of entries unchanged
OnlyNamedFieldsReplaced(id, updates) ==
  /\ Len(timetableEntries') = Len(timetableEntries)
  /\ \A k \in 1..Len(timetableEntries) :
        IF timetableEntries[k].id = id
        THEN /\ DOMAIN timetableEntries'[k] = DOMAIN timetableEntries[k]
             /\ \A f \in DOMAIN timetableEntries[k] :
                   timetableEntries'[k][f] =
                     IF f \in DOMAIN updates THEN updates[f]
                     ELSE timetableEntries[k][f]
             /\ timetableEntries'[k].day = timetableEntries[k].day
             /\ timetableEntries'[k].period = timetableEntries[k].period
             /\ timetableEntries'[k].id = timetableEntries[k].id
        ELSE timetableEntries'[k] = timetableEntries[k]

TeacherChangeRequest ==
  /\ dialog.isOpen
  /\ dialog.entry # 0
  /\ FindEntry(timetableEntries, dialog.entry) # 0
  /\ dialog.selectedSubjectId # 0
  /\ dialog.selectedTeacherId # 0
  /\ dialog.selectedTeacherId
       # timetableEntries[FindEntry(timetableEntries, dialog.entry)].teacherId

\* the entry the dialog is open on, with the selected teacher
EntryWithNewTeacher ==
  [timetableEntries[FindEntry(timetableEntries, dialog.entry)]
     EXCEPT !.teacherId = dialog.selectedTeacherId]

NewTeacherUnavailable == ~TeachersAvailable(<<EntryWithNewTeacher>>, teachers)

NewTeacherDoubleBooked ==
  \E i \in 1..Len(timetableEntries) :
     /\ timetableEntries[i].id # dialog.entry
     /\ SameSlot(timetableEntries[i], EntryWithNewTeacher)
     /\ timetableEntries[i].teacherId = dialog.selectedTeacherId

\* C20: saving an update that changes the teacher of an entry, when the new
\* teacher does not have the entry's (day, period) in availableSlots or
\* another entry has the new teacher at that (day, period), is refused with
\* the teacher-unavailable or the teacher-double-booked report and leaves
\* the entries unchanged.
C20_TeacherChangeRevalidated ==
  [][(TeacherChangeRequest /\ ret'.op = "handleSave" /\ handleSave
        /\ (NewTeacherUnavailable \/ NewTeacherDoubleBooked)) =>
       /\ timetableEntries' = timetableEntries
       /\ ret'.value \in
            {NotAvailableToast(teachers[FindTeacher(teachers, dialog.selectedTeacherId)]),
             TeacherBusyToast(teachers[FindTeacher(teachers, dialog.selectedTeacherId)].name)}]_vars

(***************************************************************************)
(* Claims about the stored issue list.                                     *)
(***************************************************************************)
\* the issues a validation of the next state derives
DerivedNext ==
  AsTuple(ValidationIssues(timetableEntries', subjects', teachers', days', now'))

\* C21: a validation, called alone or by the drag-and-drop handler after its
\* move, leaves in the issue list the issues derived from the current
\* entries, subjects, teachers and days and nothing else: no blocked-move
\* issue of an earlier rejected move is left.
C21_ValidateRebuildsIssueList ==
  [][(\/ ret'.op = "validateTimetable"
      \/ ret'.op = "handleDragEnd" /\ ret'.value = "drop") =>
       /\ \A derived \in {DerivedNext} :
             IssueMultiset(validationErrors') = IssueMultiset(derived)
       /\ \A i \in 1..Len(validationErrors') :
             validationErrors'[i].message \notin BlockedMoveMessages]_vars

\* the grid has dropped a card: one of two entries is where its teacher is
\* free, the other is not, and the list holds issues but no blocked-move one
C21_Witness ==
  /\ ret = [op |-> "handleDragEnd", value |-> "drop"]
  /\ Len(timetableEntries) = 2
  /\ ~TeachersAvailable(timetableEntries, teachers)
  /\ validationErrors # <<>>
  /\ \A i \in 1..Len(validationErrors) :
        validationErrors[i].message \notin BlockedMoveMessages

\* a step of the validating store that mutates the entry set
StoreMutation ==
  /\ storeKind = "validating"
  /\ \/ ret'.op \in {"initializeTimetable", "addTimetableEntry", "removeTimetableEntry",
                     "updateTimetableEntry", "resetTimetable"}
     \/ /\ ret'.op = "moveTimetableEntry"
        /\ MoveSucceeded
        /\ timetableEntries' # timetableEntries

\* C22: after every mutation of the entry set through the validating store
\* the stored issue list equals, as a multiset of (severity, message), the
\* issues a validation derives from the state just produced.
C22_IssueListFollowsMutations ==
  [][StoreMutation =>
       \A derived \in {DerivedNext} :
          IssueMultiset(validationErrors') = IssueMultiset(derived)]_vars

(***************************************************************************)
(* Claims about the rules of the validation.                               *)
(***************************************************************************)
\* the rule an issue comes from, by the label of its id: 1 lecture count,
\* 2 daily subject cap, 3 teacher double-booking, 4 teacher availability,
\* 5 consecutive same subject, 6 under-utilized slots, 7 suggestions
RuleOf(issue) ==
  LET names == {subjects[k].name : k \in 1..Len(subjects)}
      teacherNames == {teachers[k].name : k \in 1..Len(teachers)}
      label == issue.id.label
  IN IF label \in {n \o " lectures insufficient" : n \in names}
                    \cup {n \o " lectures excess" : n \in names} THEN 1
     ELSE IF label \in {n \o " distribution " \o d : n \in names, d \in Range(days)} THEN 2
     ELSE IF label \in {"Teacher " \o n \o " double-booking" : n \in teacherNames} THEN 3
     ELSE IF label \in {"Teacher " \o n \o " availability" : n \in teacherNames} THEN 4
     ELSE IF label \in {n \o " consecutive " \o d : n \in names, d \in Range(days)} THEN 5
     ELSE IF label = "empty-slots-warning" THEN 6
     ELSE 7

\* C23: after a validation the issues are grouped by rule in the order
\* lecture count, daily subject cap, teacher double-booking, teacher
\* availability, consecutive same subject, under-utilized slots,
\* suggestions: no issue of a later rule precedes an issue of an earlier one.
C23_IssuesGroupedByRule ==
  ret.op = "validateTimetable" =>
    \A i, j \in 1..Len(validationErrors) :
       i < j => RuleOf(validationErrors[i]) <= RuleOf(validationErrors[j])

ConsecutiveMessage(subject, day) ==
  subject.name \o " has 3 or more consecutive periods on " \o day

\* the classes and periods p at which the subject starts a run p, p+1, p+2
\* on the day in the grid of one class
RunStarts(subject, day) ==
  {run \in {ClassOf(timetableEntries[i]) : i \in 1..Len(timetableEntries)}
             \X (1..periodsPerDay) :
     \A q \in run[2]..(run[2] + 2) :
        \E i \in 1..Len(timetableEntries) :
           /\ timetableEntries[i].subjectId = subject.id
           /\ timetableEntries[i].day = day
           /\ timetableEntries[i].period = q
           /\ ClassOf(timetableEntries[i]) = run[1]}

\* C24: after a validation, every subject and day have one
\* consecutive-same-subject warning for each start of a run of three
\* consecutive periods of the subject on that day, and no other.
C24_ConsecutiveWarningPerRunStart ==
  ret.op = "validateTimetable" =>
    \A k \in 1..Len(subjects) : \A day \in Range(days) :
       Count(validationErrors,
             LAMBDA e : e.severity = WARNING
                          /\ e.message = ConsecutiveMessage(subjects[k], day))
         = Cardinality(RunStarts(subjects[k], day))

UnderUtilizedMessage(n) ==
  "There are " \o ToString(n)
    \o " empty slots that could be used for subjects needing more lectures"

\* the slots of the days x periods domain that no entry is at
DomainSlotsWithoutEntry ==
  {sl \in AllSlots :
     ~ \E i \in 1..Len(timetableEntries) :
          timetableEntries[i].day = sl[1] /\ timetableEntries[i].period = sl[2]}

UnderUtilizedWarnings(messages) ==
  Count(validationErrors, LAMBDA e : e.severity = WARNING /\ e.message \in messages)

PlacedBefore(k) == SubSeq(timetableEntries, 1, k - 1)

\* the day with the fewest entries of the subject among the placed ones,
\* the earliest such day
PreferredDayIndex(placed, subjectId) ==
  LET count(d) == Cardinality({i \in 1..Len(placed) :
                                 placed[i].subjectId = subjectId /\ placed[i].day = days[d]})
  IN CHOOSE d \in 1..Len(days) :
       /\ \A other \in 1..Len(days) : count(d) <= count(other)
       /\ \A other \in 1..(d - 1) : count(other) > count(d)

\* the slot is not filled, is in the teacher's availableSlots and is not held
\* by the teacher
Feasible(placed, teacherId, day, period) ==
  /\ \A i \in 1..Len(placed) : ~(placed[i].day = day /\ placed[i].period = period)
  /\ TeachersAvailable(<<[teacherId |-> teacherId, day |-> day, period |-> period]>>,
                       teachers)
  /\ \A i \in 1..Len(placed) :
        ~(placed[i].teacherId = teacherId /\ placed[i].day = day
            /\ placed[i].period = period)

PlacedOf(timetable, subjectId) ==
  Cardinality({i \in 1..Len(timetable) : timetable[i].subjectId = subjectId})

\* every pass of the while loop, from the state st on, places at most one
\* entry for each subject
RECURSIVE EveryPassPlacesAtMostOne(_, _, _, _, _, _)
EveryPassPlacesAtMostOne(st, subjectsToSchedule, subjectTeacherMap, dayList, periods,
                         availabilityMap) ==
  IF st.allSubjectsScheduled \/ ~(st.maxAttempts > 0) THEN TRUE
  ELSE LET pass == SchedulePass([st EXCEPT !.allSubjectsScheduled = TRUE,
                                           !.maxAttempts = @ - 1],
                                subjectsToSchedule, subjectTeacherMap, dayList,
                                periods, availabilityMap)
       IN /\ \A k \in 1..Len(subjectsToSchedule) :
               PlacedOf(pass.timetable, subjectsToSchedule[k].id)
                 <= PlacedOf(st.timetable, subjectsToSchedule[k].id) + 1
          /\ IF pass.timetable = st.timetable THEN TRUE
             ELSE EveryPassPlacesAtMostOne(pass, subjectsToSchedule, subjectTeacherMap,
                                           dayList, periods, availabilityMap)

\* the state of the generator before its first pass
GeneratorStart ==
  [timetable |-> <<>>,
   filledSlots |-> {},
   scheduledLectures |-> [id \in SubjectIds |-> 0],
   allSubjectsScheduled |-> FALSE,
   maxAttempts |-> MaxAttempts,
   firstId |-> 1]

\* C27: a generated entry set has at most weeklyLectures entries of every
\* subject, every pass of the generator places at most one entry for each
\* subject, and the validation of the generated set reports no lecture-count
\* excess error.
C27_GeneratorNeverOverFills ==
  Generated =>
    /\ \A k \in 1..Len(subjects) :
          /\ LecturesOf(subjects[k]) <= subjects[k].weeklyLectures
          /\ ~HasCountError(subjects[k], "excess")
    /\ EveryPassPlacesAtMostOne(GeneratorStart, SortSubjects(subjects),
                                assignTeachersToSubjects(subjects, teachers).map,
                                days, periodsPerDay,
                                createTeacherAvailabilityMap(teachers))

\* a generated timetable in which a subject of two lectures has both, its
\* teacher has a slot left that no entry is at, and a validation has run
C27_Witness ==
  /\ Generated
  /\ \E k \in 1..Len(subjects) :
        /\ subjects[k].weeklyLectures = 2
        /\ LecturesOf(subjects[k]) = 2
        /\ \E i \in 1..Len(timetableEntries) :
              /\ timetableEntries[i].subjectId = subjects[k].id
              /\ \E d \in 1..Len(days), p \in 1..periodsPerDay :
                    Feasible(timetableEntries, timetableEntries[i].teacherId, days[d], p)

\* C28: when the generator returns, a subject that has fewer entries than
\* weeklyLectures has no feasible slot left: no (day, period) of the domain
\* is both unfilled and in the availableSlots of the subject's teacher.
C28_GeneratorIsMaximal ==
  Generated =>
    \A k \in 1..Len(subjects) :
       LecturesOf(subjects[k]) < subjects[k].weeklyLectures =>
         ~ \E d \in 1..Len(days), p \in 1..periodsPerDay :
              Feasible(timetableEntries,
                       assignTeachersToSubjects(subjects, teachers).map[subjects[k].id],
                       days[d], p)

(***************************************************************************)
(* Claims about the classes and the dialog of the multiClass store.        *)
(***************************************************************************)
\* C29: after any addClass, removeClass and setActiveClass of a class of the
\* list, activeClassId is the id of a class of the list whenever the list
\* is not empty.
C29_ActiveClassInClassList ==
  (storeKind = "multiClass" /\ classes # <<>>) => activeClassId \in ClassIds

\* C30: through the dialog a new entry is added only when the chosen teacher
\* has the slot in availableSlots, has no entry at the slot in any class,
\* and no entry of the active class is at the slot; and the additions and
\* deletions of the dialog and the moves of the grid, from the empty grid,
\* keep hard constraints 1-3.
C30_DialogAndDragKeepHardConstraints ==
  /\ []HardConstraints
  /\ [][(NewEntryRequest /\ ret'.op = "handleSave"
           /\ Len(timetableEntries') > Len(timetableEntries)) =>
          (~RequestUnavailable /\ ~RequestDoubleBooked /\ ~RequestOccupied)]_vars

\* after a drop of the grid: both classes have an entry at one slot, taught
\* by different teachers
C30_Witness ==
  /\ ret = [op |-> "handleDragEnd", value |-> "drop"]
  /\ HardConstraints
  /\ \E i, j \in 1..Len(timetableEntries) :
        /\ SameSlot(timetableEntries[i], timetableEntries[j])
        /\ ClassOf(timetableEntries[i]) # ClassOf(timetableEntries[j])
        /\ timetableEntries[i].teacherId # timetableEntries[j].teacherId

=============================================================================
